---- MODULE Spec2Model ----
(***************************************************************************)
(* A model of the polarity.spectrogram browser application: the audio      *)
(* input handler (audioHandler.js), the Start/Stop wiring and the          *)
(* requestAnimationFrame render loop (uiController.js), the renderer's     *)
(* entry point updateSpectrogramm (spectrogramRenderer.js), the            *)
(* time-frequency reassignment engine (timeFrequencyReassignment.js), the  *)
(* FFT (utils/fft.js) and the Hermite window generator                     *)
(* (utils/windowFunctions.js, utils/mathHelpers.js).                       *)
(*                                                                         *)
(* The module holds eight specifications over one set of variables:        *)
(*   Spec         the application: clicks, promises, render ticks          *)
(*   SpecFrames   the frame loop of analyzeReassignment at the program's   *)
(*                WINDOW_SIZE, the audio buffer seen through its length    *)
(*   SpecFFT      computeSTFT / performFFT on small frames                 *)
(*   SpecReassign analyzeReassignment on sample values, small windows      *)
(*   SpecMath     factorial and evaluateHermitePolynomial                  *)
(*   SpecWindows  createHermiteFunctions and the buffers it allocates      *)
(*   SpecBins     the bin loop of a frame on the entries of its transforms *)
(*   SpecTone     analyzeReassignment on sinusoids of a quarter of the     *)
(*                sample rate                                              *)
(* Each specification drives its own group of variables and leaves the     *)
(* other groups at their initial value.                                    *)
(***************************************************************************)
EXTENDS Integers, Sequences, FiniteSets, TLC

VARIABLES
    \* ---- audioHandler.js (module state) ----
    isRunning,        \* let isRunning
    audioContext,     \* "none" (undefined) | "suspended" | "running"
    fftSize,          \* analyser.fftSize, 0 while analyser is undefined
    dataArray,        \* length of the handler's dataArray, 0 while undefined
    source,           \* id of the MediaStreamSource held in `source`, 0 = undefined
    connected,        \* ids of the sources currently connected to the analyser
    mediaDevices,     \* does navigator.mediaDevices.getUserMedia exist
    chains,           \* one entry per toggleAudio() promise still in flight
    \* ---- uiController.js ----
    buttonText,       \* toggleButton.textContent
    uiDataArray,      \* length of the dataArray captured by the click handler, 0 = undefined
    rafLoops,         \* animate() callbacks registered for the next display frame
    clicks,           \* clicks on the Start/Stop button so far
    \* ---- spectrogramRenderer.js ----
    isPaused,
    useReassignment,
    ticks,            \* display-refresh ticks so far
    updatesInTick,    \* calls of updateSpectrogramm made by the latest tick
    hermiteBuilds,    \* calls of createHermiteFunctions so far
    reassignCalls,    \* calls of analyzeReassignment so far
    \* ---- analyzeReassignment, frame loop (SpecFrames) ----
    fr,
    \* ---- computeSTFT (SpecFFT) ----
    ft,
    \* ---- analyzeReassignment on samples (SpecReassign) ----
    ra,
    \* ---- mathHelpers.js (SpecMath) ----
    mh,
    \* ---- createHermiteFunctions and the buffers it hands out (SpecWindows) ----
    wf,
    \* ---- analyzeReassignment, the loop over the bins of a frame (SpecBins) ----
    bn,
    \* ---- analyzeReassignment on a sinusoid (SpecTone) ----
    tn,
    \* ---- the transforms of one frame and their buffers (SpecTransforms) ----
    cs,
    \* ---- the renderer's pause and note-drawing state (SpecDraw) ----
    dr,
    \* ---- saveMidiFile (SpecMidi) ----
    md

appVars == <<isRunning, audioContext, fftSize, dataArray, source, connected,
             mediaDevices, chains, buttonText, uiDataArray, rafLoops, clicks,
             isPaused, useReassignment, ticks, updatesInTick, hermiteBuilds,
             reassignCalls>>

vars == <<appVars, fr, ft, ra, mh, wf, bn, tn, cs, dr, md>>

(***************************************************************************)
(* Bounds of the model.                                                    *)
(***************************************************************************)
MaxClicks == 3    \* clicks on the Start/Stop button in one behaviour
MaxTicks == 3     \* display-refresh ticks in one behaviour

(***************************************************************************)
(* Program constants.                                                      *)
(***************************************************************************)
WINDOW_SIZE == 2048
DEFAULT_FFT_SIZE == 2048

\* The variable groups of the other specifications, at rest.
Idle == [pc |-> "idle"]

(***************************************************************************)
(*                      audioHandler.js / uiController.js                  *)
(***************************************************************************)

\* analyser.frequencyBinCount: half the FFT size.
frequencyBinCount(size) == size \div 2

AppInit ==
    /\ isRunning = FALSE
    /\ audioContext = "none"
    /\ fftSize = 0
    /\ dataArray = 0
    /\ source = 0
    /\ connected = {}
    /\ chains = <<>>
    /\ buttonText = "Start"
    /\ uiDataArray = 0
    /\ rafLoops = 0
    /\ clicks = 0
    /\ isPaused = FALSE
    /\ useReassignment = FALSE
    /\ ticks = 0
    /\ updatesInTick = 0
    /\ hermiteBuilds = 0
    /\ reassignCalls = 0

\* The sequence s without its i-th entry.
RemoveAt(s, i) == [j \in 1..(Len(s) - 1) |-> IF j < i THEN s[j] ELSE s[j + 1]]

\* The click handler's .then callback (uiController.js 44-56), run with the
\* value v the toggleAudio() promise resolved to.
ThenCallback(v) ==
    /\ buttonText' = IF v THEN "Stop" ELSE "Start"
    /\ IF v
       THEN /\ uiDataArray' = dataArray'      \* getAudioData()
            /\ rafLoops' = rafLoops + 1       \* requestAnimationFrame(animate)
       ELSE UNCHANGED <<uiDataArray, rafLoops>>

\* A click while isRunning: toggleAudio() -> stopAudioInput().  The source
\* held in `source` is disconnected, and audioContext.suspend() is pending.
ClickStop ==
    /\ clicks < MaxClicks
    /\ isRunning
    /\ clicks' = clicks + 1
    /\ connected' = connected \ {source}
    /\ isRunning' = FALSE
    /\ chains' = Append(chains, "suspend")
    /\ UNCHANGED <<audioContext, fftSize, dataArray, source, mediaDevices,
                   buttonText, uiDataArray, rafLoops, isPaused, useReassignment,
                   ticks, updatesInTick, hermiteBuilds, reassignCalls>>

\* A click while not isRunning, in a browser without the MediaDevices API:
\* startAudioInput() returns Promise.resolve(false); the .then callback runs
\* in the same task.
ClickStartUnsupported ==
    /\ clicks < MaxClicks
    /\ ~isRunning
    /\ ~mediaDevices
    /\ clicks' = clicks + 1
    /\ UNCHANGED <<isRunning, audioContext, fftSize, dataArray, source, connected,
                   mediaDevices, chains>>
    /\ ThenCallback(FALSE)
    /\ UNCHANGED <<isPaused, useReassignment, ticks, updatesInTick, hermiteBuilds,
                   reassignCalls>>

\* A click while not isRunning: startAudioInput() creates the context and the
\* analyser on first use and leaves a getUserMedia request pending.
ClickStart ==
    /\ clicks < MaxClicks
    /\ ~isRunning
    /\ mediaDevices
    /\ clicks' = clicks + 1
    /\ IF audioContext = "none"
       THEN /\ audioContext' = "suspended"
            /\ fftSize' = DEFAULT_FFT_SIZE
            /\ dataArray' = frequencyBinCount(DEFAULT_FFT_SIZE)
       ELSE UNCHANGED <<audioContext, fftSize, dataArray>>
    /\ chains' = Append(chains, "getUserMedia")
    /\ UNCHANGED <<isRunning, source, connected, mediaDevices, buttonText,
                   uiDataArray, rafLoops, isPaused, useReassignment, ticks,
                   updatesInTick, hermiteBuilds, reassignCalls>>

\* getUserMedia resolves with a stream: a new source is created and
\* connected, isRunning is set, audioContext.resume() is pending.
GumGranted(i) ==
    /\ chains[i] = "getUserMedia"
    /\ source' = source + 1
    /\ connected' = connected \cup {source + 1}
    /\ isRunning' = TRUE
    /\ chains' = [chains EXCEPT ![i] = "resume"]
    /\ UNCHANGED <<audioContext, fftSize, dataArray, mediaDevices, buttonText,
                   uiDataArray, rafLoops, clicks, isPaused, useReassignment,
                   ticks, updatesInTick, hermiteBuilds, reassignCalls>>

\* getUserMedia rejects: the .catch handler returns false, the click
\* handler's callback runs with false.
GumDenied(i) ==
    /\ chains[i] = "getUserMedia"
    /\ chains' = RemoveAt(chains, i)
    /\ UNCHANGED <<isRunning, audioContext, fftSize, dataArray, source, connected,
                   mediaDevices, clicks>>
    /\ ThenCallback(FALSE)
    /\ UNCHANGED <<isPaused, useReassignment, ticks, updatesInTick, hermiteBuilds,
                   reassignCalls>>

\* audioContext.resume() resolves: the chain resolves to true and the click
\* handler's callback starts an animate() loop.
ResumeResolved(i) ==
    /\ chains[i] = "resume"
    /\ chains' = RemoveAt(chains, i)
    /\ audioContext' = "running"
    /\ UNCHANGED <<isRunning, fftSize, dataArray, source, connected, mediaDevices,
                   clicks>>
    /\ ThenCallback(TRUE)
    /\ UNCHANGED <<isPaused, useReassignment, ticks, updatesInTick, hermiteBuilds,
                   reassignCalls>>

\* audioContext.resume() rejects: the .catch handler returns false.
ResumeRejected(i) ==
    /\ chains[i] = "resume"
    /\ chains' = RemoveAt(chains, i)
    /\ UNCHANGED <<isRunning, audioContext, fftSize, dataArray, source, connected,
                   mediaDevices, clicks>>
    /\ ThenCallback(FALSE)
    /\ UNCHANGED <<isPaused, useReassignment, ticks, updatesInTick, hermiteBuilds,
                   reassignCalls>>

\* audioContext.suspend() resolves: the chain resolves to false.
SuspendResolved(i) ==
    /\ chains[i] = "suspend"
    /\ chains' = RemoveAt(chains, i)
    /\ audioContext' = "suspended"
    /\ UNCHANGED <<isRunning, fftSize, dataArray, source, connected, mediaDevices,
                   clicks>>
    /\ ThenCallback(FALSE)
    /\ UNCHANGED <<isPaused, useReassignment, ticks, updatesInTick, hermiteBuilds,
                   reassignCalls>>

\* audioHandler.js line 8.
FFT_SIZES == {2048, 4096, 8192, 16384, 32768}

\* The values the size select is changed to: two of the sizes and a value
\* that is none.
SizeChoices == {2048, 4096, 1000}

\* A change of the FFT-size select (uiController.js 95-97):
\* updateFFTSize(size), whose return value the handler drops.
UpdateFFTSize(size) ==
    /\ IF size \in FFT_SIZES /\ fftSize # 0
       THEN /\ fftSize' = size
            /\ dataArray' = frequencyBinCount(size)
       ELSE UNCHANGED <<fftSize, dataArray>>
    /\ UNCHANGED <<isRunning, audioContext, source, connected, mediaDevices,
                   chains, buttonText, uiDataArray, rafLoops, clicks, isPaused,
                   useReassignment, ticks, updatesInTick, hermiteBuilds,
                   reassignCalls>>

(***************************************************************************)
(*                         spectrogramRenderer.js                          *)
(***************************************************************************)

\* togglePause() (the pause button).
TogglePause ==
    /\ isPaused' = ~isPaused
    /\ UNCHANGED <<isRunning, audioContext, fftSize, dataArray, source, connected,
                   mediaDevices, chains, buttonText, uiDataArray, rafLoops, clicks,
                   useReassignment, ticks, updatesInTick, hermiteBuilds,
                   reassignCalls>>

\* toggleReassignment(enable) (the checkbox).
ToggleReassignment(enable) ==
    /\ useReassignment' = enable
    /\ useReassignment # enable
    /\ UNCHANGED <<isRunning, audioContext, fftSize, dataArray, source, connected,
                   mediaDevices, chains, buttonText, uiDataArray, rafLoops, clicks,
                   isPaused, ticks, updatesInTick, hermiteBuilds, reassignCalls>>

\* How many times one call of updateSpectrogramm calls analyzeReassignment:
\* not at all while paused (early return) or with the byte-spectrum path.
ReassignCallsPerUpdate == IF ~isPaused /\ useReassignment THEN 1 ELSE 0

\* How many times one call of analyzeReassignment calls
\* createHermiteFunctions (timeFrequencyReassignment.js line 20).
HermiteBuildsPerCall == 1

\* One display-refresh tick: the browser runs every registered animate()
\* callback; each calls updateSpectrogramm when the captured analyser,
\* dataArray and audioContext are set, and registers itself again.
Tick ==
    /\ ticks < MaxTicks
    /\ rafLoops > 0
    /\ ticks' = ticks + 1
    /\ LET updates == IF uiDataArray # 0 THEN rafLoops ELSE 0
       IN  /\ updatesInTick' = updates
           /\ reassignCalls' = reassignCalls + updates * ReassignCallsPerUpdate
           /\ hermiteBuilds' = hermiteBuilds
                  + updates * ReassignCallsPerUpdate * HermiteBuildsPerCall
    /\ UNCHANGED <<isRunning, audioContext, fftSize, dataArray, source, connected,
                   mediaDevices, chains, buttonText, uiDataArray, rafLoops, clicks,
                   isPaused, useReassignment>>

AppNext ==
    \/ ClickStop
    \/ ClickStartUnsupported
    \/ ClickStart
    \/ \E i \in 1..Len(chains) : GumGranted(i)
    \/ \E i \in 1..Len(chains) : GumDenied(i)
    \/ \E i \in 1..Len(chains) : ResumeResolved(i)
    \/ \E i \in 1..Len(chains) : ResumeRejected(i)
    \/ \E i \in 1..Len(chains) : SuspendResolved(i)
    \/ TogglePause
    \/ \E enable \in BOOLEAN : ToggleReassignment(enable)
    \/ \E size \in SizeChoices : UpdateFFTSize(size)
    \/ Tick

Init ==
    /\ AppInit /\ mediaDevices \in BOOLEAN
    /\ fr = Idle /\ ft = Idle /\ ra = Idle /\ mh = Idle /\ wf = Idle /\ bn = Idle /\ tn = Idle
    /\ cs = Idle /\ dr = Idle /\ md = Idle

Next == AppNext /\ UNCHANGED <<fr, ft, ra, mh, wf, bn, tn, cs, dr, md>>

Spec == Init /\ [][Next]_vars

(***************************************************************************)
(* C8 (as stated): after any sequence of clicks the engine entry point     *)
(* updateSpectrogramm is invoked at most once per display-refresh tick,    *)
(* because at most one requestAnimationFrame loop is alive.                *)
(***************************************************************************)
C8_AtMostOneUpdatePerTick == updatesInTick <= 1 /\ rafLoops <= 1

(***************************************************************************)
(* C9 (as stated): across any sequence of analysis ticks (the              *)
(* configuration N, K, tm never changes in the application) the Hermite    *)
(* window bank is built exactly once: createHermiteFunctions is not        *)
(* invoked again per call of analyzeReassignment.                          *)
(***************************************************************************)
C9_WindowBankBuiltOnce == hermiteBuilds <= 1

(***************************************************************************)
(*        timeFrequencyReassignment.js: the frame loop (SpecFrames)        *)
(*                                                                         *)
(* The control flow of analyzeReassignment depends on the audio buffer     *)
(* only through its length: this specification runs the function at the    *)
(* program's WINDOW_SIZE with the buffer seen through audioData.length.    *)
(* The operators take the window size W as a parameter, so that            *)
(* SpecReassign can run the same code on windows small enough to           *)
(* enumerate sample values.                                                *)
(***************************************************************************)
MaxExtra == 6     \* audio lengths run up to WINDOW_SIZE + MaxExtra
MaxStep == 3      \* steps run over -MaxStep..MaxStep, and the default W/4
MaxTapers == 2    \* taper counts K run over -1..MaxTapers
FrameCap == 8     \* frames of one call that the model follows

\* JavaScript numbers that the frame count can evaluate to.
Num(n) == [k |-> "num", v |-> n]
PosInfinity == [k |-> "inf", v |-> 0]
NegInfinity == [k |-> "-inf", v |-> 0]
NaN == [k |-> "nan", v |-> 0]

\* Math.floor(a / b) for integers a, b.
FloorOfQuotient(a, b) ==
    IF b = 0
    THEN IF a > 0 THEN PosInfinity ELSE IF a < 0 THEN NegInfinity ELSE NaN
    ELSE IF b > 0 THEN Num(a \div b) ELSE Num((0 - a) \div (0 - b))

\* x + n for a JavaScript number x and an integer n.
JsPlus(x, n) == IF x.k = "num" THEN Num(x.v + n) ELSE x

\* Math.max(n, x) for an integer n.
MathMax(n, x) ==
    CASE x.k = "num" -> Num(IF x.v > n THEN x.v ELSE n)
      [] x.k = "inf" -> PosInfinity
      [] x.k = "-inf" -> Num(n)
      [] OTHER -> NaN

\* i < x for an integer i.
Less(i, x) ==
    CASE x.k = "num" -> i < x.v
      [] x.k = "inf" -> TRUE
      [] OTHER -> FALSE

NFramesNoMax(len, step, W) == JsPlus(FloorOfQuotient(len - W, step), 1)

\* const nFrames = Math.max(1, Math.floor((audioData.length - WINDOW_SIZE) / step) + 1)
NFrames(len, step, W) == MathMax(1, JsPlus(FloorOfQuotient(len - W, step), 1))

\* const startIdx = frame * step
StartIdx(frame, step) == frame * step

\* TypedArray.prototype.slice(begin, end) on an array of length len: the
\* index of the first element kept and the number of elements kept.
RelativeIndex(i, len) ==
    IF i < 0 THEN (IF len + i > 0 THEN len + i ELSE 0)
             ELSE (IF i < len THEN i ELSE len)
SliceFirst(len, begin) == RelativeIndex(begin, len)
SliceCount(len, begin, end) ==
    LET from == RelativeIndex(begin, len)
        to == RelativeIndex(end, len)
    IN  IF to > from THEN to - from ELSE 0

\* Does computeSTFT return on a frame of n samples?  The bit-reversal loop
\* of performFFT (BitReversal below, which SpecFFT runs) halves k to 0 and
\* then never ends exactly when n >= 3 is not a power of two.
TransformReturns(n) == n < 3 \/ \E e \in 1..30 : n = 2 ^ e

\* The arguments of one call of analyzeReassignment, the buffer as its length.
FrameInputs ==
    [len : 0..(WINDOW_SIZE + MaxExtra),
     step : (0 - MaxStep)..MaxStep \cup {WINDOW_SIZE \div 4},
     K : (0 - 1)..MaxTapers]

FramesInit ==
    /\ AppInit /\ mediaDevices = TRUE /\ ft = Idle /\ ra = Idle
    /\ mh = Idle /\ wf = Idle /\ bn = Idle /\ tn = Idle
    /\ cs = Idle /\ dr = Idle /\ md = Idle
    /\ \E in \in FrameInputs :
        fr = [pc |-> "entry", len |-> in.len, step |-> in.step, K |-> in.K,
              nFrames |-> NaN, frame |-> 0, frames |-> <<>>, stftCalls |-> 0]

\* Lines 18-33: the window bank is created (new Float32Array(K * WINDOW_SIZE)
\* throws a RangeError for a negative length), the input is normalised, the
\* frame count is computed and the result buffer allocated.
FramesEnter ==
    /\ fr.pc = "entry"
    /\ fr' = IF fr.K < 0
             THEN [fr EXCEPT !.pc = "threw"]
             ELSE [fr EXCEPT !.pc = "loop",
                             !.nFrames = NFrames(fr.len, fr.step, WINDOW_SIZE)]

\* Lines 36-115: one iteration of `for (frame = 0; frame < nFrames; frame++)`:
\* the frame is sliced out of the buffer and every taper transforms it twice.
\* The first transform of a frame whose length computeSTFT does not return
\* on is the last thing the call does.
FramesIterate ==
    /\ fr.pc = "loop"
    /\ Less(fr.frame, fr.nFrames)
    /\ fr.frame < FrameCap
    /\ LET startIdx == StartIdx(fr.frame, fr.step)
           frameData == [start |-> startIdx,
                         first |-> SliceFirst(fr.len, startIdx),
                         length |-> SliceCount(fr.len, startIdx,
                                               startIdx + WINDOW_SIZE)]
       IN  fr' = IF fr.K >= 1 /\ ~TransformReturns(frameData.length)
                 THEN [fr EXCEPT !.pc = "hung",
                                 !.frames = Append(fr.frames, frameData),
                                 !.stftCalls = fr.stftCalls + 1]
                 ELSE [fr EXCEPT !.frame = fr.frame + 1,
                                 !.frames = Append(fr.frames, frameData),
                                 !.stftCalls = fr.stftCalls + 2 * fr.K]

\* Line 117: the loop condition fails and the result is returned.
FramesReturn ==
    /\ fr.pc = "loop"
    /\ ~Less(fr.frame, fr.nFrames)
    /\ fr' = [fr EXCEPT !.pc = "done"]

FramesNext ==
    /\ FramesEnter \/ FramesIterate \/ FramesReturn
    /\ UNCHANGED <<appVars, ft, ra, mh, wf, bn, tn, cs, dr, md>>

SpecFrames == FramesInit /\ [][FramesNext]_vars

\* max(1, floor((len - N) / step) + 1) over the integers, step > 0.
ExpectedFrames(len, step, N) ==
    IF (len - N) \div step + 1 > 1 THEN (len - N) \div step + 1 ELSE 1

(***************************************************************************)
(* C1: for every audio length len >= 0 and every step > 0,                 *)
(* analyzeReassignment takes up max(1, floor((len - 2048) / step) + 1)     *)
(* frames and no more, frame f starting at sample f * step: a call that    *)
(* has ended (returned, or stuck in the transform of its frame) has taken  *)
(* up exactly that many, and exactly one whenever len < 2048 + step.       *)
(***************************************************************************)
C1_FrameCount ==
    (fr.pc \in {"loop", "done", "hung"} /\ fr.step > 0) =>
        /\ Len(fr.frames) <= ExpectedFrames(fr.len, fr.step, 2048)
        /\ \A f \in 1..Len(fr.frames) : fr.frames[f].start = (f - 1) * fr.step
        /\ fr.pc \in {"done", "hung"} =>
              /\ Len(fr.frames) = ExpectedFrames(fr.len, fr.step, 2048)
              /\ fr.len < 2048 + fr.step => Len(fr.frames) = 1

\* A call with step > 0 has returned after more than one frame.
C1_Witness ==
    /\ fr.pc = "done"
    /\ fr.step > 0
    /\ Len(fr.frames) > 2
    /\ fr.len >= 2048 + fr.step

\* A configuration error: step zero or negative, or fewer than one taper.
ConfigError(in) == in.step <= 0 \/ in.K < 1

(***************************************************************************)
(* C10 (as stated): a configuration error is rejected with an error        *)
(* before any frame is processed: analyzeReassignment never runs its       *)
(* frame loop on such a configuration.                                     *)
(***************************************************************************)
C10_ConfigErrorRejected ==
    (fr.pc # "idle" /\ ConfigError(fr)) =>
        /\ fr.pc \in {"entry", "threw"}
        /\ Len(fr.frames) = 0

(***************************************************************************)
(* C11 (as stated): with a valid configuration, every frame handed to      *)
(* computeSTFT is a slice of exactly 2048 samples starting at              *)
(* frame_index * step, whatever the length of the input, lengths below     *)
(* 2048 included.                                                          *)
(***************************************************************************)
C11_FramesAreFullWindows ==
    (fr.pc # "idle" /\ ~ConfigError(fr)) =>
        \A f \in 1..Len(fr.frames) :
            /\ fr.frames[f].first = (f - 1) * fr.step
            /\ fr.frames[f].length = WINDOW_SIZE

(***************************************************************************)
(*                       JavaScript numbers, scaled                        *)
(*                                                                         *)
(* The engine computes in IEEE floating point.  The model computes in      *)
(* fixed point: a finite number x is held as the integer nearest to        *)
(* x * One, and NaN as a value of its own.  Every operation propagates     *)
(* NaN as IEEE arithmetic does, and every comparison with NaN is false.    *)
(* Products, quotients and the elementary functions are rounded to the     *)
(* nearest multiple of 1 / One, so the model agrees with the program on    *)
(* signs, zeros, NaNs and orderings up to that resolution, not on bits.    *)
(***************************************************************************)
One == 2 ^ 8
NaNfx == 0 - 2 ^ 30

IsNaN(x) == x = NaNfx
Fx(n) == n * One                      \* the integer n
Abs(x) == IF x < 0 THEN 0 - x ELSE x

\* a / b for integers, b > 0, rounded to the nearest integer.
RoundDiv(a, b) ==
    IF a >= 0 THEN (2 * a + b) \div (2 * b)
              ELSE 0 - ((2 * (0 - a) + b) \div (2 * b))

\* m / 1000 as a scaled number.
Milli(m) == RoundDiv(m * One, 1000)

FxAdd(a, b) == IF IsNaN(a) \/ IsNaN(b) THEN NaNfx ELSE a + b
FxSub(a, b) == IF IsNaN(a) \/ IsNaN(b) THEN NaNfx ELSE a - b
FxMul(a, b) == IF IsNaN(a) \/ IsNaN(b) THEN NaNfx ELSE RoundDiv(a * b, One)
\* a / b; 0 / 0 is NaN.  A non-zero number is never divided by zero within
\* the inputs of the model (sample rates and window sizes are positive).
FxDiv(a, b) ==
    IF IsNaN(a) \/ IsNaN(b) \/ (a = 0 /\ b = 0) THEN NaNfx
    ELSE IF b > 0 THEN RoundDiv(a * One, b) ELSE 0 - RoundDiv(a * One, 0 - b)
\* a > b and friends: false as soon as one side is NaN.
FxGt(a, b) == ~IsNaN(a) /\ ~IsNaN(b) /\ a > b
FxLt(a, b) == ~IsNaN(a) /\ ~IsNaN(b) /\ a < b
\* Math.max(a, b), Math.min(a, b): NaN as soon as one argument is NaN.
FxMax(a, b) == IF IsNaN(a) \/ IsNaN(b) THEN NaNfx ELSE IF a > b THEN a ELSE b
FxMin(a, b) == IF IsNaN(a) \/ IsNaN(b) THEN NaNfx ELSE IF a < b THEN a ELSE b
\* arr[i] of a typed array held as a function on 0..n-1: undefined outside,
\* and undefined converts to NaN in arithmetic.
At(arr, i) == IF i \in DOMAIN arr THEN arr[i] ELSE NaNfx

(***************************************************************************)
(*                          utils/fft.js                                   *)
(***************************************************************************)
MaxFFTLen == 4     \* SpecFFT transforms frames of 0..MaxFFTLen samples
MaxSample == 1     \* whose samples run over -MaxSample..MaxSample

\* Math.cos(-Math.PI / halfStep) and Math.sin(-Math.PI / halfStep) for the
\* stages the model runs (halfStep = 1, 2, 4, 8); smaller angles by their
\* Taylor polynomial.
PiFx == Milli(3142)
CosOfAngle(halfStep) ==
    CASE halfStep = 1 -> 0 - One
      [] halfStep = 2 -> 0
      [] halfStep = 4 -> Milli(707)
      [] halfStep = 8 -> Milli(924)
      [] OTHER -> One - RoundDiv(PiFx * PiFx, 2 * halfStep * halfStep * One)
SinOfAngle(halfStep) ==
    CASE halfStep = 1 -> 0
      [] halfStep = 2 -> 0 - One
      [] halfStep = 4 -> 0 - Milli(707)
      [] halfStep = 8 -> 0 - Milli(383)
      [] OTHER -> 0 - RoundDiv(PiFx, halfStep)

\* A rotation by the whole angle of butterfly (step, pair):
\* cos and sin of -PI * pair / step, for the steps 1, 2 and 4.
RotationExact(step, pair) ==
    CASE pair = 0 -> <<One, 0>>
      [] step = 2 /\ pair = 1 -> <<0, 0 - One>>
      [] step = 4 /\ pair = 1 -> <<Milli(707), 0 - Milli(707)>>
      [] step = 4 /\ pair = 2 -> <<0, 0 - One>>
      [] step = 4 /\ pair = 3 -> <<0 - Milli(707), 0 - Milli(707)>>
      [] OTHER -> <<FxMul(CosOfAngle(step), RoundDiv(pair * One, step)),
                    FxMul(SinOfAngle(step), RoundDiv(pair * One, step))>>

\* Lines 66, 69-70, 83-85: the factor multiplied into the odd element of
\* butterfly (step, pair): <<rotReal, rotImag>> with
\*   angle = -PI / step, factor = pair / step,
\*   rotReal = cos(angle) * factor, rotImag = sin(angle) * factor.
Rotation(step, pair) ==
    LET factor == RoundDiv(pair * One, step)
    IN  <<FxMul(CosOfAngle(step), factor), FxMul(SinOfAngle(step), factor)>>

\* Lines 72-95: the butterflies pair, pair + 1, ..., step - 1 of one group.
RECURSIVE Pairs(_, _, _, _)
Pairs(fft, step, group, pair) ==
    IF ~(pair < step) THEN fft
    ELSE
      LET evenIndex == group * 2 + pair * 2
          oddIndex == evenIndex + step * 2
          evenReal == At(fft, evenIndex)
          evenImag == At(fft, evenIndex + 1)
          oddReal == At(fft, oddIndex)
          oddImag == At(fft, oddIndex + 1)
          rot == Rotation(step, pair)
          tempReal == FxSub(FxMul(oddReal, rot[1]), FxMul(oddImag, rot[2]))
          tempImag == FxAdd(FxMul(oddReal, rot[2]), FxMul(oddImag, rot[1]))
          \* a store outside the bounds of a typed array is ignored
          next == [i \in DOMAIN fft |->
                     CASE i = oddIndex -> FxSub(evenReal, tempReal)
                       [] i = oddIndex + 1 -> FxSub(evenImag, tempImag)
                       [] i = evenIndex -> FxAdd(evenReal, tempReal)
                       [] i = evenIndex + 1 -> FxAdd(evenImag, tempImag)
                       [] OTHER -> fft[i]]
      \* (the comparison settles the buffer before the next butterfly
      \* reads it)
      IN  IF next = fft THEN Pairs(fft, step, group, pair + 1)
          ELSE Pairs(next, step, group, pair + 1)

\* Lines 68-96: the groups group, group + 2 * step, ... of one stage.
RECURSIVE Groups(_, _, _, _)
Groups(fft, N, step, group) ==
    IF ~(group < N) THEN fft
    ELSE LET done == Pairs(fft, step, group, 0)
         IN  IF done = fft THEN Groups(fft, N, step, group + step * 2)
             ELSE Groups(done, N, step, group + step * 2)

\* Lines 64-97: the stages step, 2 * step, ... below N.
RECURSIVE Stages(_, _, _)
Stages(fft, N, step) ==
    IF ~(step < N) THEN fft
    ELSE LET done == Groups(fft, N, step, 0)
         IN  IF done = fft THEN Stages(fft, N, step * 2)
             ELSE Stages(done, N, step * 2)

\* Lines 55-59: `while (k <= j) { j -= k; k >>= 1 }`.  j is never negative,
\* so once k is 0 the condition holds for ever: the loop does not end.
\* The result is <<j, k>>, or <<-1, 0>> for the loop that does not end.
RECURSIVE WhileLoop(_, _)
WhileLoop(j, k) ==
    IF ~(k <= j) THEN <<j, k>>
    ELSE IF k = 0 THEN <<0 - 1, 0>>
    ELSE WhileLoop(j - k, k \div 2)

\* Lines 43-61: the bit-reversal loop from index i on.  The result is the
\* permuted buffer, with hung set when an inner loop does not end.
RECURSIVE BitReversal(_, _, _, _)
BitReversal(fft, N, i, j) ==
    IF ~(i < N - 1) THEN [hung |-> FALSE, fft |-> fft]
    ELSE
      LET swapped == IF i < j
                     THEN [x \in DOMAIN fft |->
                             CASE x = i * 2 -> At(fft, j * 2)
                               [] x = i * 2 + 1 -> At(fft, j * 2 + 1)
                               [] x = j * 2 -> fft[i * 2]
                               [] x = j * 2 + 1 -> fft[i * 2 + 1]
                               [] OTHER -> fft[x]]
                     ELSE fft
          jk == WhileLoop(j, N \div 2)
      IN  IF jk[1] < 0 THEN [hung |-> TRUE, fft |-> swapped]
          ELSE IF swapped = fft THEN BitReversal(fft, N, i + 1, jk[1] + jk[2])
          ELSE BitReversal(swapped, N, i + 1, jk[1] + jk[2])

\* performFFT(input): hung when the call does not return, else the buffer
\* it returns.
performFFT(input) ==
    LET N == Cardinality(DOMAIN input) \div 2
        reversed == BitReversal(input, N, 0, 0)
    IN  IF reversed.hung THEN reversed
        ELSE [hung |-> FALSE, fft |-> Stages(reversed.fft, N, 1)]

\* computeSTFT(data, window): the frame is multiplied by the window, packed
\* as interleaved complex numbers and transformed.
computeSTFT(data, window) ==
    LET N == Cardinality(DOMAIN data)
        windowedData == [i \in 0..(N - 1) |-> FxMul(data[i], At(window, i))]
        result == [x \in 0..(2 * N - 1) |->
                     IF x % 2 = 0 THEN windowedData[x \div 2] ELSE 0]
    IN  performFFT(result)

\* Line 64: the values step takes in `for (step = 1; step < N; step <<= 1)`.
RECURSIVE StageSteps(_, _)
StageSteps(N, step) ==
    IF ~(step < N) THEN <<>> ELSE <<step>> \o StageSteps(N, step * 2)

\* Lines 64-85: the butterflies (step, pair) the stages of an N-point
\* transform run, each with the factor it multiplies into its odd element.
Butterflies(N) ==
    LET steps == StageSteps(N, 1)
    IN  UNION {{[step |-> steps[s], pair |-> pair,
                 rot |-> Rotation(steps[s], pair)] : pair \in 0..(steps[s] - 1)}
               : s \in DOMAIN steps}

\* The frames and windows SpecFFT transforms: integers, equal lengths.
FFTInputs ==
    UNION {[frame : [0..(n - 1) -> {Fx(v) : v \in (0 - MaxSample)..MaxSample}],
            window : [0..(n - 1) -> {Fx(v) : v \in 0..MaxSample}]]
           : n \in 0..MaxFFTLen}

FFTInit ==
    /\ AppInit /\ mediaDevices = TRUE /\ fr = Idle /\ ra = Idle
    /\ mh = Idle /\ wf = Idle /\ bn = Idle /\ tn = Idle
    /\ cs = Idle /\ dr = Idle /\ md = Idle
    /\ \E in \in FFTInputs :
        ft = [pc |-> "entry", frame |-> in.frame, window |-> in.window,
              out |-> <<>>, reversed |-> <<>>, stages |-> 0,
              butterflies |-> {}]

\* One call of computeSTFT(frame, window).  With the buffer returned the
\* state keeps what the call went through: the buffer as the bit-reversal
\* loop left it, the number of stages and the butterflies run.
FFTCall ==
    /\ ft.pc = "entry"
    /\ UNCHANGED <<appVars, fr, ra, mh, wf, bn, tn, cs, dr, md>>
    /\ LET r == computeSTFT(ft.frame, ft.window)
           N == Cardinality(DOMAIN ft.frame)
           input == [x \in 0..(2 * N - 1) |->
                       IF x % 2 = 0
                       THEN FxMul(ft.frame[x \div 2], At(ft.window, x \div 2))
                       ELSE 0]
       IN  ft' = IF r.hung THEN [ft EXCEPT !.pc = "hung"]
                 ELSE [ft EXCEPT !.pc = "done", !.out = r.fft,
                                 !.reversed = BitReversal(input, N, 0, 0).fft,
                                 !.stages = Len(StageSteps(N, 1)),
                                 !.butterflies = Butterflies(N)]

SpecFFT == FFTInit /\ [][FFTCall]_vars

\* The length of the frame SpecFFT transforms.
FrameLength == Cardinality(DOMAIN ft.frame)

\* e^(-2*pi*i*q/4) for an integer q: <<real, imaginary>>, exact.
QuarterTurn(q) ==
    CASE q % 4 = 0 -> <<1, 0>>
      [] q % 4 = 1 -> <<0, 0 - 1>>
      [] q % 4 = 2 -> <<0 - 1, 0>>
      [] OTHER -> <<0, 1>>

RECURSIVE SumTo(_, _)
SumTo(f, n) == IF n < 0 THEN 0 ELSE f[n] + SumTo(f, n - 1)

\* The reference DFT of the windowed frame at bin b, for N in {1, 2, 4}:
\* sum over i of frame[i] * window[i] * e^(-2*pi*i*b/N), as <<re, im>>.
ReferenceDFT(frame, window, b) ==
    LET N == Cardinality(DOMAIN frame)
        x == [i \in 0..(N - 1) |-> FxMul(frame[i], window[i])]
        re == [i \in 0..(N - 1) |-> x[i] * QuarterTurn((4 \div N) * b * i)[1]]
        im == [i \in 0..(N - 1) |-> x[i] * QuarterTurn((4 \div N) * b * i)[2]]
    IN  <<SumTo(re, N - 1), SumTo(im, N - 1)>>

(***************************************************************************)
(* C6 (as stated): for a power-of-two length N and a frame and window of   *)
(* length N, computeSTFT returns an interleaved buffer of length 2N whose  *)
(* bin b (real at 2b, imaginary at 2b+1) equals the reference DFT          *)
(* sum_i frame[i]*window[i]*e^(-2*pi*i*b/N).  Stated for N = 1, 2, 4,      *)
(* where the reference is exact in the model's arithmetic.                 *)
(***************************************************************************)
C6_MatchesReferenceDFT ==
    (ft.pc = "done" /\ FrameLength \in {1, 2, 4}) =>
        /\ DOMAIN ft.out = 0..(2 * FrameLength - 1)
        /\ \A b \in 0..(FrameLength - 1) :
              /\ ft.out[2 * b] = ReferenceDFT(ft.frame, ft.window, b)[1]
              /\ ft.out[2 * b + 1] = ReferenceDFT(ft.frame, ft.window, b)[2]

\* The frame is a unit impulse at the window centre and the window is all ones.
CentredImpulse ==
    /\ FrameLength >= 2
    /\ \A i \in DOMAIN ft.frame :
          /\ ft.frame[i] = (IF i = FrameLength \div 2 THEN Fx(1) ELSE 0)
          /\ ft.window[i] = Fx(1)

(***************************************************************************)
(* C7 (as stated): for a power-of-two N, the transform of a unit impulse   *)
(* at the window centre (window of ones) has a flat magnitude spectrum:    *)
(* all N bins have the same magnitude, the impulse's magnitude 1.          *)
(***************************************************************************)
C7_ImpulseSpectrumFlat ==
    (ft.pc = "done" /\ CentredImpulse) =>
        \A b \in 0..(FrameLength - 1) :
            ft.out[2 * b] * ft.out[2 * b] + ft.out[2 * b + 1] * ft.out[2 * b + 1]
                = One * One

(***************************************************************************)
(* C12 (as stated): computeSTFT returns on a frame of every length, a      *)
(* power of two or not, with a buffer of twice the frame's length.         *)
(***************************************************************************)
C12_TransformTerminates ==
    /\ ft.pc # "hung"
    /\ ft.pc = "done" => DOMAIN ft.out = 0..(2 * FrameLength - 1)

(***************************************************************************)
(*                    The elementary functions, scaled                     *)
(***************************************************************************)

\* The integer square root: the largest r with r * r <= n.
RECURSIVE Isqrt(_)
Isqrt(n) ==
    IF n < 2 THEN n
    ELSE LET small == 2 * Isqrt(n \div 4)
             large == small + 1
         IN  IF large * large > n THEN small ELSE large

\* Math.sqrt(x): NaN for a negative number.
FxSqrt(x) == IF IsNaN(x) \/ x < 0 THEN NaNfx ELSE Isqrt(x * One)

\* Math.sqrt(a * a + b * b), the squares taken at a coarser scale when they
\* would leave the range of the model's integers.
RECURSIVE Hypot(_, _)
Hypot(a, b) ==
    IF IsNaN(a) \/ IsNaN(b) THEN NaNfx
    ELSE IF Abs(a) < 2 ^ 14 /\ Abs(b) < 2 ^ 14 THEN Isqrt(a * a + b * b)
    ELSE 4 * Hypot(RoundDiv(a, 4), RoundDiv(b, 4))

\* 2 ^ (-v) for v >= 0: the integer part of v shifts, the fractional part f
\* goes through the parabola 1 - f * (0.657 - 0.157 * f), which is 1 at 0 and
\* 1/2 at 1.
Pow2Neg(v) ==
    LET n == v \div One
        f == v % One
        m == One - FxMul(f, Milli(657) - FxMul(Milli(157), f))
    IN  IF n > 20 THEN 0 ELSE RoundDiv(m, 2 ^ n)

\* Math.exp(-u) for u >= 0: 2 ^ (-u * log2(e)).
ExpNeg(u) == IF IsNaN(u) THEN NaNfx ELSE Pow2Neg(FxMul(u, Milli(1443)))

\* -log2(x) for 0 < x <= 1: the number of halvings n that bring x * 2^n into
\* (1/2, 1], and the parabola above inverted by its chord on that interval.
RECURSIVE Log2Neg(_)
Log2Neg(x) ==
    IF 2 * x <= One THEN One + Log2Neg(2 * x)
    ELSE 2 * (One - x)

\* Math.pow(x, 0.1) for 0 <= x <= 1: 0 at 0, 1 at 1, 2 ^ (0.1 * log2(x))
\* in between; NaN for NaN.
PowTenth(x) ==
    IF IsNaN(x) THEN NaNfx
    ELSE IF x <= 0 THEN 0
    ELSE IF x >= One THEN One
    ELSE Pow2Neg(RoundDiv(Log2Neg(x), 10))

\* Math.atan(a) for 0 <= a <= 1: a * (pi/4 + 0.273 * (1 - a)).
AtanUnit(a) == FxMul(a, RoundDiv(PiFx, 4) + FxMul(Milli(273), One - a))

\* Math.atan2(y, x), in [-pi, pi]; the sign of a zero is not modelled
\* (atan2(0, x) is 0 for x >= 0 and pi for x < 0).
Atan2(y, x) ==
    IF IsNaN(y) \/ IsNaN(x) THEN NaNfx
    ELSE IF x = 0 /\ y = 0 THEN 0
    ELSE
      LET ax == Abs(x)
          ay == Abs(y)
          inner == IF ay <= ax THEN AtanUnit(FxDiv(ay, ax))
                   ELSE RoundDiv(PiFx, 2) - AtanUnit(FxDiv(ax, ay))
          upper == IF x < 0 THEN PiFx - inner ELSE inner
      IN  IF y < 0 THEN 0 - upper ELSE upper

\* Math.round(x): the nearest integer, halves rounded up; NaN stays NaN.
\* The result is an integer, not a scaled number.
MathRound(x) == IF IsNaN(x) THEN NaNfx ELSE (2 * x + One) \div (2 * One)

(***************************************************************************)
(*                        utils/mathHelpers.js                             *)
(***************************************************************************)

\* factorial with 0 for its base case.
RECURSIVE factorialBaseZero(_)
factorialBaseZero(n) == IF n <= 1 THEN 0 ELSE n * factorialBaseZero(n - 1)

\* The probabilists' recurrence He_0 = 1, He_1 = x, He_n = x*He_(n-1) - (n-1)*He_(n-2).
RECURSIVE HermiteProbabilists(_, _)
HermiteProbabilists(n, x) ==
    IF n = 0 THEN Fx(1)
    ELSE IF n = 1 THEN x
    ELSE FxSub(FxMul(x, HermiteProbabilists(n - 1, x)),
               FxMul(Fx(n - 1), HermiteProbabilists(n - 2, x)))

RECURSIVE factorial(_)
factorial(n) == IF n <= 1 THEN 1 ELSE n * factorial(n - 1)

\* x is a scaled number, and so is the value.
RECURSIVE evaluateHermitePolynomial(_, _)
evaluateHermitePolynomial(n, x) ==
    IF n = 0 THEN Fx(1)
    ELSE IF n = 1 THEN FxMul(Fx(2), x)
    ELSE FxSub(FxMul(FxMul(Fx(2), x), evaluateHermitePolynomial(n - 1, x)),
               FxMul(Fx(2 * (n - 1)), evaluateHermitePolynomial(n - 2, x)))

(***************************************************************************)
(*                       utils/windowFunctions.js                          *)
(***************************************************************************)

\* Lines 11-17: t[i] = -tm + i * dt with dt = 2.0 * tm / (N - 1); tm is an
\* integer.
\* For N = 1, dt is Infinity and t[0] = -tm + 0 * Infinity is NaN.
TimePoint(N, tm, i) ==
    IF N = 1 THEN NaNfx
    ELSE FxAdd(Fx(0 - tm), FxMul(Fx(i), FxDiv(Fx(2 * tm), Fx(N - 1))))

\* Line 21: Math.sqrt(Math.sqrt(Math.PI) * Math.pow(2, k) * factorial(k)).
HermiteNorm(k) == FxSqrt(FxMul(FxSqrt(PiFx), Fx((2 ^ k) * factorial(k))))

\* Math.exp(-x * x / 2).
Envelope(x) == IF IsNaN(x) THEN NaNfx ELSE ExpNeg(RoundDiv(FxMul(x, x), 2))

\* createHermiteFunctions(N, M, tm): three arrays of M * N numbers each;
\* new Float32Array throws a RangeError for a negative length.
createHermiteFunctions(N, M, tm) ==
    LET x(i) == TimePoint(N, tm, i)
        hermite(k, i) == evaluateHermitePolynomial(k, x(i))
        hAt(k, i) == FxDiv(FxMul(hermite(k, i), Envelope(x(i))), HermiteNorm(k))
        DhAt(k, i) ==
            FxDiv(FxMul(FxSub(FxMul(Fx(k), hermite(k, i)),
                              FxMul(x(i), hermite(k, i))),
                        Envelope(x(i))),
                  HermiteNorm(k))
    IN  IF M < 0 THEN [threw |-> TRUE, h |-> <<>>, Dh |-> <<>>, Th |-> <<>>]
        ELSE [threw |-> FALSE,
              h |-> [n \in 0..(M * N - 1) |-> hAt(n \div N, n % N)],
              Dh |-> [n \in 0..(M * N - 1) |-> DhAt(n \div N, n % N)],
              Th |-> [n \in 0..(M * N - 1) |->
                        FxMul(x(n % N), hAt(n \div N, n % N))]]

(***************************************************************************)
(*        timeFrequencyReassignment.js on samples (SpecReassign)           *)
(*                                                                         *)
(* The function is run as the program runs it, with the window size W as   *)
(* a parameter: the program's 2048-sample window cannot be enumerated, so  *)
(* the specification runs windows of 2^LogWindow samples.  Arrays are      *)
(* functions on 0..n-1.                                                    *)
(***************************************************************************)
LogWindow == 2       \* W = 2^LogWindow samples per window
MaxOver == 1         \* audio lengths run over 0..W + MaxOver
MaxCalls == 2        \* calls of analyzeReassignment in one behaviour

\* x * num / den for a scaled x and integers num, den > 0.
Times(x, num, den) == IF IsNaN(x) THEN NaNfx ELSE RoundDiv(x * num, den)

\* x * x for a scaled x, the square taken on x / sqrt(One).
FxSquare(x) ==
    IF IsNaN(x) THEN NaNfx
    ELSE LET q == RoundDiv(x, Isqrt(One)) IN q * q

\* Math.floor(num / den + 1/2) for integers num and den > 0: Math.round of
\* a quotient.
RoundOfQuotient(num, den) == (2 * num + den) \div (2 * den)

\* The number of elements of an array.
Length(arr) == Cardinality(DOMAIN arr)

\* -Infinity, which Math.max() of no arguments returns.
NegInfinityFx == 0 - 2 ^ 29

\* Math.max(...arr) from index i on, acc the maximum so far.
RECURSIVE MaxFrom(_, _, _)
MaxFrom(arr, i, acc) ==
    IF i >= Length(arr) THEN acc
    ELSE LET next == IF IsNaN(acc) \/ IsNaN(arr[i]) THEN NaNfx
                     ELSE IF arr[i] > acc THEN arr[i] ELSE acc
         IN  IF next = acc THEN MaxFrom(arr, i + 1, acc)
             ELSE MaxFrom(arr, i + 1, next)
MathMaxOf(arr) == MaxFrom(arr, 0, NegInfinityFx)

\* arr.slice(begin, end) of a typed array.
Slice(arr, begin, end) ==
    LET first == SliceFirst(Length(arr), begin)
        count == SliceCount(Length(arr), begin, end)
    IN  [i \in 0..(count - 1) |-> arr[first + i]]

\* n zeros: new Float32Array(n), new Uint8Array(n).
Zeros(n) == [i \in 0..(n - 1) |-> 0]

\* Lines 23-29: the input divided by its peak amplitude and amplified.
Normalize(audioData) ==
    LET maxAmp == MathMaxOf([i \in DOMAIN audioData |->
                               IF IsNaN(audioData[i]) THEN NaNfx
                               ELSE Abs(audioData[i])])
    IN  [i \in DOMAIN audioData |->
           FxMul(FxDiv(audioData[i], maxAmp), Fx(200))]

\* Lines 79-80: the two wrapping loops.
RECURSIVE WrapDown(_)
WrapDown(x) == IF FxGt(x, PiFx) THEN WrapDown(x - 2 * PiFx) ELSE x
RECURSIVE WrapUp(_)
WrapUp(x) == IF FxLt(x, 0 - PiFx) THEN WrapUp(x + 2 * PiFx) ELSE x

\* The value kept were the result an untyped array.
NoConversion(x) == x

\* The value a store into a Uint8Array keeps: NaN becomes 0, a number is
\* truncated and taken modulo 256.
ToUint8(x) ==
    IF IsNaN(x) THEN 0
    ELSE IF x >= 0 THEN (x \div One) % 256
    ELSE (256 - (((0 - x) \div One) % 256)) % 256

\* The value before the store: Math.min(255, Math.max(0, x)).
ClampByte(x) == FxMin(Fx(255), FxMax(0, x))

\* Line 64: Math.exp(-Math.pow(binFreq - targetFreq, 2) / (2 * 100 * 100)).
FreqWeight(binFreq) ==
    ExpNeg(RoundDiv(FxSquare(FxSub(binFreq, Fx(500))), 2 * 100 * 100))

\* Line 69: Math.atan2(imag, real); the phase remembered for the bin is not
\* an operand.
PhaseOf(imag, real, previousPhase, bin) == Atan2(imag, real)

\* A mutation of AboveFloor: the comparison lets equality through.
AtOrAboveFloor(mag, maxMagnitude) ==
    ~IsNaN(mag) /\ ~IsNaN(maxMagnitude) /\ mag >= Times(maxMagnitude, 1, 100)

\* Line 66: mag > maxMagnitude * 0.01.
AboveFloor(mag, maxMagnitude) == FxGt(mag, Times(maxMagnitude, 1, 100))

\* A mutation of InRange: the upper end of the range is not tested.
InRangeFromZero(reassignedBin, W) == ~IsNaN(reassignedBin) /\ reassignedBin >= 0

\* Line 90: reassignedBin >= 0 && reassignedBin < WINDOW_SIZE / 2.
InRange(reassignedBin, W) ==
    /\ ~IsNaN(reassignedBin)
    /\ reassignedBin >= 0
    /\ 2 * reassignedBin < W

\* A mutation of RunningMaximum: the latest magnitude that passed the
\* threshold instead of the largest.
LatestMagnitude(maxMagnitude, mag) == mag

\* Line 67: maxMagnitude = Math.max(maxMagnitude, mag).
RunningMaximum(maxMagnitude, mag) == FxMax(maxMagnitude, mag)

\* A mutation of LimitOffset: the offset in Hz is taken as it is.
UnlimitedOffset(offsetHz) == offsetHz

\* Lines 83-85: Math.max(-maxOffset, Math.min(maxOffset, ...)) with
\* maxOffset = 50.
LimitOffset(offsetHz) == FxMax(Fx(0 - 50), FxMin(Fx(50), offsetHz))

\* Lines 54-102, one bin of one taper.  st holds the running state of the
\* frame: maxMagnitude, tfr, previousPhase and the log of the bins examined.
ProcessBin(st, stft, freqMod, k, bin, sampleRate, W) ==
    LET real == At(stft, bin * 2)
        imag == At(stft, bin * 2 + 1)
        mag == Hypot(real, imag)
        binFreq == RoundDiv(bin * sampleRate * One, W)
        freqWeight == FreqWeight(binFreq)
        accepted == AboveFloor(mag, st.maxMagnitude)
        maxMagnitude == RunningMaximum(st.maxMagnitude, mag)
        phase == PhaseOf(imag, real, st.previousPhase, bin)
        freqReal == At(freqMod, bin * 2)
        freqImag == At(freqMod, bin * 2 + 1)
        freqPhase == Atan2(freqImag, freqReal)
        rawOffset == Times(FxSub(freqPhase, phase), One, 2 * PiFx)
        instFreqOffset == WrapUp(WrapDown(rawOffset))
        freqOffset == LimitOffset(Times(instFreqOffset, sampleRate, W))
        reassignedFreq == FxAdd(binFreq, freqOffset)
        reassignedBin ==
            IF IsNaN(reassignedFreq) THEN NaNfx
            ELSE RoundOfQuotient(reassignedFreq * W, sampleRate * One)
        inRange == InRange(reassignedBin, W)
        distance == Abs(reassignedBin - bin)
        weight == ExpNeg(RoundDiv(Fx(distance * distance), 2) * 4)
        ratio == FxDiv(mag, maxMagnitude)
        finalWeight == FxMul(FxMul(weight, freqWeight), FxMul(ratio, ratio))
        entry == [k |-> k, bin |-> bin, mag |-> mag,
                  maxBefore |-> st.maxMagnitude, accepted |-> accepted,
                  ratio |-> IF accepted THEN ratio ELSE NaNfx,
                  phase |-> IF accepted THEN phase ELSE NaNfx,
                  freqPhase |-> IF accepted THEN freqPhase ELSE NaNfx,
                  rawOffset |-> IF accepted THEN rawOffset ELSE NaNfx,
                  instFreqOffset |-> IF accepted THEN instFreqOffset ELSE NaNfx,
                  freqOffset |-> IF accepted THEN freqOffset ELSE NaNfx,
                  reassignedBin |-> IF accepted THEN reassignedBin ELSE NaNfx,
                  added |-> IF accepted /\ inRange THEN FxMul(mag, finalWeight)
                            ELSE NaNfx]
    IN  IF ~accepted THEN [st EXCEPT !.log = Append(st.log, entry)]
        ELSE [maxMagnitude |-> maxMagnitude,
              previousPhase |-> [st.previousPhase EXCEPT ![bin] = phase],
              tfr |-> IF inRange
                      THEN [st.tfr EXCEPT ![reassignedBin] =
                               FxAdd(@, FxMul(mag, finalWeight))]
                      ELSE st.tfr,
              log |-> Append(st.log, entry)]

\* Lines 54-102: the bins bin, bin + 1, ... below W / 2 of one taper.
RECURSIVE Bins(_, _, _, _, _, _, _)
Bins(st, stft, freqMod, k, bin, sampleRate, W) ==
    IF ~(2 * bin < W) THEN st
    \* (the comparison settles the state of the frame before the next bin)
    ELSE LET next == ProcessBin(st, stft, freqMod, k, bin, sampleRate, W)
         IN  IF next = st THEN Bins(st, stft, freqMod, k, bin + 1, sampleRate, W)
             ELSE Bins(next, stft, freqMod, k, bin + 1, sampleRate, W)

\* Lines 44-103: the tapers k, k + 1, ... below K of one frame.  hung is set
\* when a transform does not return.
RECURSIVE Tapers(_, _, _, _, _, _, _, _)
Transformed(st, frameData, h, Dh, k, K, sampleRate, W, stft, freqMod) ==
    IF stft.hung \/ freqMod.hung THEN [hung |-> TRUE, st |-> st]
    ELSE Tapers(Bins(st, stft.fft, freqMod.fft, k, 0, sampleRate, W),
                frameData, h, Dh, k + 1, K, sampleRate, W)
Tapers(st, frameData, h, Dh, k, K, sampleRate, W) ==
    IF ~(k < K) THEN [hung |-> FALSE, st |-> st]
    ELSE Transformed(st, frameData, h, Dh, k, K, sampleRate, W,
                     computeSTFT(frameData, Slice(h, k * W, (k + 1) * W)),
                     computeSTFT(frameData, Slice(Dh, k * W, (k + 1) * W)))

\* A mutation of HasEnergy: the frame is written whatever its maximum.
AnyEnergy(maxVal) == TRUE

\* Line 107: maxVal > 0.
HasEnergy(maxVal) == FxGt(maxVal, 0)

\* Lines 105-114: the frame's energy written to the shared result buffer.
WriteResult(result, tfr, W) ==
    LET maxVal == MathMaxOf(tfr)
    IN  IF HasEnergy(maxVal)
        THEN [i \in DOMAIN result |->
                LET normalized == FxDiv(tfr[i], maxVal)
                    enhanced == PowTenth(normalized)
                IN  ToUint8(ClampByte(Times(enhanced, 255 * 5, 1)))]
        ELSE result

\* The same lines with the accumulator left on the module's buffer.
FrameStartOnModuleBuffer(previousPhase, W) ==
    [maxMagnitude |-> 0,
     tfr |-> [i \in 0..((W \div 2) - 1) |-> Abs(previousPhase[i])],
     previousPhase |-> previousPhase, log |-> <<>>]

\* Lines 41-42: a frame starts from a new accumulator and no magnitude seen.
FrameStart(previousPhase, W) ==
    [maxMagnitude |-> 0, tfr |-> Zeros(W \div 2),
     previousPhase |-> previousPhase, log |-> <<>>]

\* Lines 105-115: the end of an iteration, done the outcome of its tapers.
FrameDone(e, frameData, done, W) ==
    IF done.hung
    THEN [e EXCEPT !.hung = TRUE, !.frameData = frameData]
    ELSE [e EXCEPT !.frame = e.frame + 1,
                   !.frameData = frameData,
                   !.tfr = done.st.tfr,
                   !.maxMagnitude = done.st.maxMagnitude,
                   !.log = done.st.log,
                   !.previousPhase = done.st.previousPhase,
                   !.result = WriteResult(e.result, done.st.tfr, W)]

\* Lines 38-103: the tapers applied to the slice frameData.
FrameTapers(e, frameData, sampleRate, K, W) ==
    FrameDone(e, frameData,
              Tapers(FrameStart(e.previousPhase, W), frameData, e.h, e.Dh,
                     0, K, sampleRate, W),
              W)

\* Lines 36-115: one iteration of the frame loop, from the state e of an
\* engine in a call: e.normalizedData, e.h, e.Dh, e.frame, e.result and the
\* module's e.previousPhase.
ProcessFrame(e, sampleRate, step, K, W) ==
    FrameTapers(e,
                Slice(e.normalizedData, StartIdx(e.frame, step),
                      StartIdx(e.frame, step) + W),
                sampleRate, K, W)

\* Lines 18-33: an engine at the head of the frame loop, bank the windows.
Entered(bank, audioData, previousPhase, W) ==
    [h |-> bank.h, Dh |-> bank.Dh,
     normalizedData |-> Normalize(audioData),
     frame |-> 0, frameData |-> <<>>, hung |-> FALSE,
     tfr |-> Zeros(W \div 2), maxMagnitude |-> 0, log |-> <<>>,
     result |-> Zeros(W \div 2),
     previousPhase |-> previousPhase]
EnterCall(audioData, K, tm, previousPhase, W) ==
    Entered(createHermiteFunctions(W, K, tm), audioData, previousPhase, W)

\* The window of SpecReassign, and const previousPhase = new Float32Array(W).
Window == 2 ^ LogWindow
FreshPhase == Zeros(Window)

\* The sample values of the calls SpecReassign makes.
Samples == {Fx(v) : v \in (0 - MaxSample)..MaxSample}

NoCall == [audioData |-> <<>>, sampleRate |-> 0, step |-> 0, K |-> 0, tm |-> 0]
NoEngine == [hung |-> FALSE]

\* ra.engine is the engine of the module, whose previousPhase survives from
\* call to call; ra.fresh is an engine that runs the same call on a newly
\* loaded module.
ReassignInit ==
    /\ AppInit /\ mediaDevices = TRUE /\ fr = Idle /\ ft = Idle
    /\ mh = Idle /\ wf = Idle /\ bn = Idle /\ tn = Idle
    /\ cs = Idle /\ dr = Idle /\ md = Idle
    /\ ra = [pc |-> "ready", calls |-> 0, in |-> NoCall, nFrames |-> NaN,
             engine |-> NoEngine, fresh |-> NoEngine,
             previousPhase |-> FreshPhase]

\* Lines 18-33 of a call analyzeReassignment(audioData, sampleRate, step, K, tm).
ReassignCall(audioData, sampleRate, step, K, tm) ==
    /\ ra.pc = "ready"
    /\ ra.calls < MaxCalls
    /\ ra' = [pc |-> "loop", calls |-> ra.calls + 1,
              in |-> [audioData |-> audioData, sampleRate |-> sampleRate,
                      step |-> step, K |-> K, tm |-> tm],
              nFrames |-> NFrames(Length(audioData), step, Window),
              engine |-> EnterCall(audioData, K, tm, ra.previousPhase, Window),
              fresh |-> EnterCall(audioData, K, tm, FreshPhase, Window),
              previousPhase |-> ra.previousPhase]
    /\ UNCHANGED <<appVars, fr, ft, mh, wf, bn, tn, cs, dr, md>>

\* Lines 36-115: one frame, in the module's engine and in the fresh one.
ReassignFrame ==
    /\ ra.pc = "loop"
    /\ Less(ra.engine.frame, ra.nFrames)
    /\ \E both \in {[x \in {"engine", "fresh"} |->
                       ProcessFrame(ra[x], ra.in.sampleRate, ra.in.step,
                                    ra.in.K, Window)]} :
          ra' = [ra EXCEPT !.pc = IF both.engine.hung THEN "hung" ELSE "loop",
                           !.engine = both.engine, !.fresh = both.fresh,
                           !.previousPhase = both.engine.previousPhase]
    /\ UNCHANGED <<appVars, fr, ft, mh, wf, bn, tn, cs, dr, md>>

\* Line 117: the call returns engine.result.
ReassignReturn ==
    /\ ra.pc = "loop"
    /\ ~Less(ra.engine.frame, ra.nFrames)
    /\ ra' = [ra EXCEPT !.pc = "returned"]
    /\ UNCHANGED <<appVars, fr, ft, mh, wf, bn, tn, cs, dr, md>>

\* The caller is done with the vector: what is left of the call is the
\* module's previousPhase.
ReassignReady ==
    /\ ra.pc = "returned"
    /\ ra' = [ra EXCEPT !.pc = "ready", !.in = NoCall, !.nFrames = NaN,
                        !.engine = NoEngine, !.fresh = NoEngine]
    /\ UNCHANGED <<appVars, fr, ft, mh, wf, bn, tn, cs, dr, md>>

\* The sample rate puts the bins of the small window around the 500 Hz the
\* engine weights for; tm = 3 keeps the edges of the small window above the
\* resolution of the arithmetic.
ReassignNext ==
    \/ \E n \in 0..(Window + MaxOver), step \in 1..MaxOver, K \in 1..MaxTapers :
         \E audioData \in [0..(n - 1) -> Samples] :
            ReassignCall(audioData, 2000, step, K, 3)
    \/ ReassignFrame
    \/ ReassignReturn
    \/ ReassignReady

SpecReassign == ReassignInit /\ [][ReassignNext]_vars

AllZero(arr) == \A i \in DOMAIN arr : arr[i] = 0
InCall == ra.pc \in {"loop", "hung", "returned"}

\* C2: a call of analyzeReassignment that returns, returns Window / 2 entries,
\* each an integer from 0 to 255, whatever the length of the input.
C2_ResultIsByteVector ==
    ra.pc = "returned" =>
        /\ DOMAIN ra.engine.result = 0..((Window \div 2) - 1)
        /\ \A i \in DOMAIN ra.engine.result : ra.engine.result[i] \in 0..255

\* A call on an input shorter than the window has returned a vector with a
\* saturated entry and a zero entry.
C2_Witness ==
    /\ ra.pc = "returned"
    /\ Length(ra.in.audioData) < Window
    /\ \E i \in DOMAIN ra.engine.result : ra.engine.result[i] = 255
    /\ \E i \in DOMAIN ra.engine.result : ra.engine.result[i] = 0

\* C3: on an all-zero input of any length the call returns, and the vector
\* it returns is all zeros.
C3_ZeroInputReturnsZeros ==
    (InCall /\ AllZero(ra.in.audioData)) =>
        /\ ra.pc # "hung"
        /\ ra.pc = "returned" => AllZero(ra.engine.result)

\* The vector a frame alone gives: its scaled energy, zeros when it has none.
VectorOfFrame(tfr) ==
    IF FxGt(MathMaxOf(tfr), 0)
    THEN WriteResult(Zeros(Window \div 2), tfr, Window)
    ELSE Zeros(Window \div 2)

\* C4: for an input of several frames the returned vector is the vector of
\* the final frame alone, all zeros when the final frame is silent.
C4_ResultIsFinalFrameVector ==
    (ra.pc = "returned" /\ ra.engine.frame >= 2) =>
        /\ ra.engine.result = VectorOfFrame(ra.engine.tfr)
        /\ ra.engine.maxMagnitude = 0 => AllZero(ra.engine.result)

\* C5: a call returns what the same call returns on a newly loaded module:
\* the phases left in previousPhase by earlier calls change neither the
\* frames processed, nor the energy accumulated, nor the vector returned.
C5_ResultIndependentOfHistory ==
    InCall =>
        /\ ra.engine.hung = ra.fresh.hung
        /\ ra.engine.frame = ra.fresh.frame
        /\ ra.engine.tfr = ra.fresh.tfr
        /\ ra.engine.result = ra.fresh.result

\* A second call has returned a vector with energy in it while the module's
\* phase memory held phases of the first call that a new module has not.
C5_Witness ==
    /\ ra.pc = "returned"
    /\ ra.calls = 2
    /\ ra.engine.previousPhase # ra.fresh.previousPhase
    /\ ~AllZero(ra.engine.result)

(***************************************************************************)
(*                   utils/mathHelpers.js (SpecMath)                       *)
(***************************************************************************)
MaxOrder == 7       \* factorial is called on -MaxOrder..MaxOrder
MaxDegree == 4      \* evaluateHermitePolynomial on degrees 0..MaxDegree
MaxArg == 6         \* and on the arguments m / 2, m in -MaxArg..MaxArg, and NaN

\* The arguments of the calls SpecMath makes.  At a half-integer x every
\* product of the recurrence is exact in the model's arithmetic.
HermiteArgs == {RoundDiv(m * One, 2) : m \in (0 - MaxArg)..MaxArg} \cup {NaNfx}
MathInputs ==
    [fn : {"factorial"}, n : (0 - MaxOrder)..MaxOrder, x : {0}]
        \cup [fn : {"evaluateHermitePolynomial"}, n : 0..MaxDegree,
              x : HermiteArgs]

MathInit ==
    /\ AppInit /\ mediaDevices = TRUE
    /\ fr = Idle /\ ft = Idle /\ ra = Idle /\ wf = Idle /\ bn = Idle /\ tn = Idle
    /\ cs = Idle /\ dr = Idle /\ md = Idle
    /\ \E in \in MathInputs :
        mh = [pc |-> "entry", fn |-> in.fn, n |-> in.n, x |-> in.x, out |-> 0]

\* One call factorial(n).
FactorialCall ==
    /\ mh.pc = "entry"
    /\ mh.fn = "factorial"
    /\ mh' = [mh EXCEPT !.pc = "done", !.out = factorial(mh.n)]
    /\ UNCHANGED <<appVars, fr, ft, ra, wf, bn, tn, cs, dr, md>>

\* One call evaluateHermitePolynomial(n, x).
HermiteCall ==
    /\ mh.pc = "entry"
    /\ mh.fn = "evaluateHermitePolynomial"
    /\ mh' = [mh EXCEPT !.pc = "done",
                        !.out = evaluateHermitePolynomial(mh.n, mh.x)]
    /\ UNCHANGED <<appVars, fr, ft, ra, wf, bn, tn, cs, dr, md>>

MathNext == FactorialCall \/ HermiteCall

SpecMath == MathInit /\ [][MathNext]_vars

\* n! for n in 0..10, written out.
FactorialTable == <<1, 1, 2, 6, 24, 120, 720, 5040, 40320, 362880, 3628800>>

(***************************************************************************)
(* C13: factorial(n) returns for every integer n: 1 for every n <= 1,      *)
(* negative n included, and n! for every n >= 2 the window generator can   *)
(* pass (n < 8).                                                           *)
(***************************************************************************)
C13_Factorial ==
    (mh.pc = "done" /\ mh.fn = "factorial") =>
        /\ mh.n <= 1 => mh.out = 1
        /\ mh.n >= 2 => mh.out = FactorialTable[mh.n + 1]

\* factorial(5) has returned 120.
C13_Witness ==
    /\ mh.pc = "done"
    /\ mh.fn = "factorial"
    /\ mh.n = 5
    /\ mh.out = 120

\* The explicit sum of the physicists' Hermite polynomial at x = m / 2:
\* H_n(x) = n! * sum over j <= n/2 of (-1)^j (2x)^(n-2j) / (j! (n-2j)!).
RECURSIVE HermiteSum(_, _, _)
HermiteSum(n, m, j) ==
    IF 2 * j > n THEN 0
    ELSE (IF j % 2 = 0 THEN 1 ELSE 0 - 1)
            * (FactorialTable[n + 1]
                  \div (FactorialTable[j + 1] * FactorialTable[n - 2 * j + 1]))
            * (IF n = 2 * j THEN 1 ELSE m ^ (n - 2 * j))
         + HermiteSum(n, m, j + 1)

\* Twice the argument of the call SpecMath makes: the integer m with x = m / 2.
TwiceArg == (2 * mh.x) \div One

(***************************************************************************)
(* C14: for every n >= 0 and every x, evaluateHermitePolynomial(n, x)      *)
(* returns the physicists' Hermite polynomial H_n(x): H_0 = 1, H_1 = 2x,   *)
(* H_2 = 4x^2 - 2, H_3 = 8x^3 - 12x, and in general the explicit sum;      *)
(* for x = NaN it returns 1 for n = 0 and NaN otherwise.                   *)
(***************************************************************************)
C14_HermitePolynomial ==
    (mh.pc = "done" /\ mh.fn = "evaluateHermitePolynomial") =>
        IF IsNaN(mh.x)
        THEN IF mh.n = 0 THEN mh.out = Fx(1) ELSE IsNaN(mh.out)
        ELSE /\ mh.out = Fx(HermiteSum(mh.n, TwiceArg, 0))
             /\ mh.n = 0 => mh.out = Fx(1)
             /\ mh.n = 1 => mh.out = Fx(TwiceArg)
             /\ mh.n = 2 => mh.out = Fx(TwiceArg * TwiceArg - 2)
             /\ mh.n = 3 => mh.out = Fx(TwiceArg * TwiceArg * TwiceArg - 6 * TwiceArg)

\* evaluateHermitePolynomial(3, 1.5) has returned 8 * 3.375 - 12 * 1.5 = 9.
C14_Witness ==
    /\ mh.pc = "done"
    /\ mh.fn = "evaluateHermitePolynomial"
    /\ mh.n = 3
    /\ TwiceArg = 3
    /\ mh.out = Fx(9)

(***************************************************************************)
(* SpecWindows: calls of createHermiteFunctions on a heap of typed arrays. *)
(* The caller keeps every result it was handed and may write into it       *)
(* between calls; a result is recorded with the buffers it names and with  *)
(* what they held when the call returned.                                  *)
(***************************************************************************)
MaxWindowLen == 3
MaxWindowCalls == 2
MaxWrites == 1

\* A mutation of Allocate: the generator keeps one module-level buffer and
\* hands it out again.
AllocateReused(heap, length) ==
    IF heap = <<>> THEN <<[i \in 0..(length - 1) |-> 0]>> ELSE heap

\* new Float32Array(length): a buffer of zeros no earlier reference names;
\* the new buffer is the last one of the heap.
Allocate(heap, length) == Append(heap, [i \in 0..(length - 1) |-> 0])

\* Lines 7-9 and 12: the buffers of h, Dh, Th and t, in that order.
Allocated(heap, N, M) ==
    LET withH  == Allocate(heap, M * N)
        withDh == Allocate(withH, M * N)
        withTh == Allocate(withDh, M * N)
    IN  [h |-> Len(withH), Dh |-> Len(withDh), Th |-> Len(withTh),
         heap |-> Allocate(withTh, N)]

\* Lines 15-31: the loops store the time points and the three families.
Filled(a, N, tm, w) ==
    [[[[a.heap EXCEPT ![Len(a.heap)] = [i \in 0..(N - 1) |-> TimePoint(N, tm, i)]]
           EXCEPT ![a.h] = w.h]
           EXCEPT ![a.Dh] = w.Dh]
           EXCEPT ![a.Th] = w.Th]

\* Line 33: the object returned names the three buffers.
Returned(a, heap, N, M, tm, writes) ==
    [N |-> N, M |-> M, tm |-> tm, h |-> a.h, Dh |-> a.Dh, Th |-> a.Th,
     hAtReturn |-> heap[a.h], DhAtReturn |-> heap[a.Dh],
     ThAtReturn |-> heap[a.Th], writesBefore |-> writes]

WindowsInit ==
    /\ AppInit
    /\ mediaDevices = TRUE
    /\ fr = Idle
    /\ ft = Idle
    /\ ra = Idle
    /\ mh = Idle
    /\ wf = [pc |-> "ready", calls |-> 0, writes |-> 0, heap |-> <<>>,
             results |-> <<>>]
    /\ bn = Idle /\ tn = Idle
    /\ cs = Idle /\ dr = Idle /\ md = Idle

\* One call createHermiteFunctions(N, M, tm) that returns.
WindowsCall(N, M, tm) ==
    /\ wf.calls < MaxWindowCalls
    /\ M >= 0
    /\ \E a \in {Allocated(wf.heap, N, M)} :
         \E heap \in {Filled(a, N, tm, createHermiteFunctions(N, M, tm))} :
            wf' = [wf EXCEPT !.calls = wf.calls + 1,
                             !.heap = heap,
                             !.results = Append(wf.results,
                                 Returned(a, heap, N, M, tm, wf.writes))]
    /\ UNCHANGED <<appVars, fr, ft, ra, mh, bn, tn, cs, dr, md>>

\* Line 7 of a call with a negative M: new Float32Array throws a RangeError,
\* nothing is allocated and nothing returned.
WindowsCallThrows(N, M, tm) ==
    /\ wf.calls < MaxWindowCalls
    /\ M < 0
    /\ createHermiteFunctions(N, M, tm).threw
    /\ wf' = [wf EXCEPT !.calls = wf.calls + 1]
    /\ UNCHANGED <<appVars, fr, ft, ra, mh, bn, tn, cs, dr, md>>

\* The caller stores v at index i of a buffer it was handed.
WindowsWrite(id, i, v) ==
    /\ wf.writes < MaxWrites
    /\ \E r \in 1..Len(wf.results) :
         id \in {wf.results[r].h, wf.results[r].Dh, wf.results[r].Th}
    /\ i \in DOMAIN wf.heap[id]
    /\ wf' = [wf EXCEPT !.writes = wf.writes + 1, !.heap[id][i] = v]
    /\ UNCHANGED <<appVars, fr, ft, ra, mh, bn, tn, cs, dr, md>>

WindowsNext ==
    \/ \E N \in 1..MaxWindowLen, M \in 0..MaxTapers, tm \in {3, 6} :
         WindowsCall(N, M, tm)
    \/ \E N \in 1..MaxWindowLen, tm \in {3, 6} : WindowsCallThrows(N, 0 - 1, tm)
    \/ \E id \in 1..Len(wf.heap), i \in 0..(MaxWindowLen * MaxTapers - 1) :
         WindowsWrite(id, i, One)

SpecWindows == WindowsInit /\ [][WindowsNext]_vars

\* The buffers the results recorded so far name.
ResultBuffers ==
    UNION {{wf.results[r].h, wf.results[r].Dh, wf.results[r].Th} :
               r \in 1..Len(wf.results)}

(***************************************************************************)
(* C15: createHermiteFunctions has no hidden state.  Two calls with the    *)
(* same (N, K, tm) return equal h, Dh and Th, whatever call or write came  *)
(* between them; each array has K * N elements; and no buffer of a result  *)
(* is a buffer of another result or another array of the same result.      *)
(***************************************************************************)
C15_NoHiddenState ==
    wf.pc = "ready" =>
        /\ \A r \in 1..Len(wf.results) :
              /\ DOMAIN wf.results[r].hAtReturn
                    = 0..(wf.results[r].M * wf.results[r].N - 1)
              /\ DOMAIN wf.results[r].DhAtReturn
                    = 0..(wf.results[r].M * wf.results[r].N - 1)
              /\ DOMAIN wf.results[r].ThAtReturn
                    = 0..(wf.results[r].M * wf.results[r].N - 1)
        /\ \A r1, r2 \in 1..Len(wf.results) :
              (/\ wf.results[r1].N = wf.results[r2].N
               /\ wf.results[r1].M = wf.results[r2].M
               /\ wf.results[r1].tm = wf.results[r2].tm)
              => /\ wf.results[r1].hAtReturn = wf.results[r2].hAtReturn
                 /\ wf.results[r1].DhAtReturn = wf.results[r2].DhAtReturn
                 /\ wf.results[r1].ThAtReturn = wf.results[r2].ThAtReturn
        /\ Cardinality(ResultBuffers) = 3 * Len(wf.results)

\* Two calls with the same arguments and arrays that are not all zero, the
\* caller having overwritten a non-zero element of the first result between
\* them.
C15_Witness ==
    /\ wf.pc = "ready"
    /\ Len(wf.results) = 2
    /\ wf.results[1].N = wf.results[2].N
    /\ wf.results[1].M = wf.results[2].M
    /\ wf.results[1].tm = wf.results[2].tm
    /\ wf.results[1].writesBefore = 0
    /\ wf.results[2].writesBefore = 1
    /\ wf.heap[wf.results[1].h] # wf.results[1].hAtReturn
    /\ \E i \in DOMAIN wf.results[2].hAtReturn :
          wf.results[2].hAtReturn[i] \notin {0, NaNfx}

(***************************************************************************)
(*                 Claims on the application (Spec), continued             *)
(***************************************************************************)

\* A step in which a promise returned by toggleAudio() resolves: a pending
\* chain settles, or startAudioInput() returned Promise.resolve(false).
ToggleAudioResolves ==
    \/ Len(chains') < Len(chains)
    \/ clicks' # clicks /\ chains' = chains

\* The value the promise resolves to in that step, as the click handler's
\* callback shows it: the button reads "Stop" exactly for true.
ResolvedValue == buttonText' = "Stop"

(***************************************************************************)
(* C17: whenever the promise returned by toggleAudio resolves to v,        *)
(* isRunning equals v at that moment, also when the microphone request is  *)
(* rejected or audioContext.resume() rejects after the source was          *)
(* connected.                                                              *)
(***************************************************************************)
C17_ResolvesToNewState ==
    [][ToggleAudioResolves => (ResolvedValue <=> isRunning')]_vars

(***************************************************************************)
(* SpecBins: the loop over the bins of one frame (lines 44-103), one step  *)
(* per bin.  What the two transforms of a taper hold for the bin is drawn  *)
(* from a set of entries: nothing, a weak, a middling and a strong         *)
(* component, and NaN as in a silent or short frame; the entry of the      *)
(* frequency-window transform leads the phase, trails it or is empty.  The *)
(* state keeps the accumulator as it was before the step and the record    *)
(* of the step.                                                            *)
(***************************************************************************)
LogBinWindow == 3
BinWindow == 2 ^ LogBinWindow
\* The sample rate at which the 50 Hz limit of line 84 is half a bin.
BinSampleRate == 2 * 50 * BinWindow
\* The sample rates of the frames: bins 100 Hz and 20 Hz wide, the limit of
\* line 84 half a bin and more than a bin.
BinSampleRates == {BinSampleRate, 20 * BinWindow}

\* <<real, imag>> of stft[bin * 2], stft[bin * 2 + 1].
StftEntries ==
    {<<0, 0>>, <<NaNfx, NaNfx>>, <<0, 1>>, <<0 - One, 0 - One>>,
     <<0 - (One \div 2), 0 - (One \div 2)>>, <<0 - 2 * One, 0 - 2 * One>>}

\* <<real, imag>> of freqMod[bin * 2], freqMod[bin * 2 + 1].
FreqEntries == {<<0, 0>>, <<0 - One, 0 - One>>, <<0 - One, One>>}

\* A transform of W points holding entry at the bin.
TransformWith(W, bin, entry) ==
    [i \in 0..(2 * W - 1) |->
        IF i = 2 * bin THEN entry[1] ELSE IF i = 2 * bin + 1 THEN entry[2] ELSE 0]

BinsInit ==
    /\ AppInit
    /\ mediaDevices = TRUE
    /\ fr = Idle /\ ft = Idle /\ ra = Idle /\ mh = Idle /\ wf = Idle
    /\ tn = Idle
    /\ cs = Idle /\ dr = Idle /\ md = Idle
    /\ \E K \in 1..MaxTapers, sampleRate \in BinSampleRates :
          bn = [pc |-> "bins", K |-> K, k |-> 0, bin |-> 0,
                sampleRate |-> sampleRate,
                st |-> FrameStart(Zeros(BinWindow), BinWindow),
                tfrBefore |-> Zeros(BinWindow \div 2)]

\* Lines 54-102 for the bin bn.bin of the taper bn.k, and the loop headers
\* of lines 54 and 44 that follow it.
BinStep(stftEntry, freqEntry) ==
    /\ bn.pc = "bins"
    /\ bn.k < bn.K
    /\ bn' = [bn EXCEPT
                !.st = ProcessBin([bn.st EXCEPT !.log = <<>>],
                                  TransformWith(BinWindow, bn.bin, stftEntry),
                                  TransformWith(BinWindow, bn.bin, freqEntry),
                                  bn.k, bn.bin, bn.sampleRate, BinWindow),
                !.tfrBefore = bn.st.tfr,
                !.bin = IF 2 * (bn.bin + 1) < BinWindow THEN bn.bin + 1 ELSE 0,
                !.k = IF 2 * (bn.bin + 1) < BinWindow THEN bn.k ELSE bn.k + 1]
    /\ UNCHANGED <<appVars, fr, ft, ra, mh, wf, tn, cs, dr, md>>

BinsNext == \E stftEntry \in StftEntries, freqEntry \in FreqEntries :
                BinStep(stftEntry, freqEntry)

SpecBins == BinsInit /\ [][BinsNext]_vars

\* A bin has been through the loop body; LastBin is the record of it.
BinExamined == bn.pc = "bins" /\ Len(bn.st.log) = 1
LastBin == bn.st.log[1]

(***************************************************************************)
(* C19: whenever a bin's magnitude is divided by the running maximum, the  *)
(* maximum is strictly positive and at least the magnitude, so the ratio   *)
(* lies in (0, 1]; and every value of the energy vector is a number that   *)
(* is not negative.  No 0 / 0 and no x / 0 is reached in the bin loop.     *)
(***************************************************************************)
C19_RatioWithinUnitInterval ==
    BinExamined =>
        /\ LastBin.accepted =>
              /\ ~IsNaN(bn.st.maxMagnitude)
              /\ bn.st.maxMagnitude > 0
              /\ bn.st.maxMagnitude >= LastBin.mag
              /\ ~IsNaN(LastBin.ratio)
              /\ LastBin.ratio > 0
              /\ LastBin.ratio <= One
        /\ \A i \in DOMAIN bn.st.tfr :
              ~IsNaN(bn.st.tfr[i]) /\ bn.st.tfr[i] >= 0

\* A bin was divided by a maximum an earlier bin had set, the ratio below 1,
\* and energy was added.
C19_Witness ==
    /\ BinExamined
    /\ LastBin.accepted
    /\ LastBin.mag < bn.st.maxMagnitude
    /\ LastBin.ratio < One
    /\ ~IsNaN(LastBin.added)
    /\ LastBin.added > 0

(***************************************************************************)
(* C20: energy is added only at indices b' with 0 <= b' < N/2 of the       *)
(* frame's energy vector; a bin whose reassigned bin is outside that range *)
(* adds nothing and changes no entry.                                      *)
(***************************************************************************)
C20_AccumulatesWithinRange ==
    BinExamined =>
        /\ DOMAIN bn.st.tfr = 0..((BinWindow \div 2) - 1)
        /\ IF /\ LastBin.accepted
              /\ ~IsNaN(LastBin.reassignedBin)
              /\ 0 <= LastBin.reassignedBin
              /\ LastBin.reassignedBin < BinWindow \div 2
           THEN \A i \in DOMAIN bn.st.tfr :
                   bn.st.tfr[i] = bn.tfrBefore[i]
                       + (IF i = LastBin.reassignedBin THEN LastBin.added ELSE 0)
           ELSE /\ bn.st.tfr = bn.tfrBefore
                /\ IsNaN(LastBin.added)

\* A bin above the threshold was reassigned to index N/2, past the end of an
\* energy vector that already holds energy.
C20_Witness ==
    /\ BinExamined
    /\ LastBin.accepted
    /\ LastBin.reassignedBin = BinWindow \div 2
    /\ \E i \in DOMAIN bn.st.tfr : bn.st.tfr[i] > 0
    /\ bn.st.tfr = bn.tfrBefore

\* The larger of the running maximum and a magnitude; a magnitude that is
\* NaN is no number and leaves the maximum as it is.
LargerOf(maxMagnitude, mag) ==
    IF IsNaN(mag) \/ mag <= maxMagnitude THEN maxMagnitude ELSE mag

\* 0.01 * maxMagnitude at the resolution of the arithmetic: mag is at most
\* the nearest representable number to maxMagnitude / 100.
AtMostHundredth(mag, maxMagnitude) == 100 * mag <= maxMagnitude + (100 \div 2)

LogToneWindow == 5
MaxToneExtra == 1
ToneWindow == 2 ^ LogToneWindow
ToneFrequency == 1000
ToneSampleRate == 4 * ToneFrequency

\* sin(2 * pi * (i + quarter) / 4) for i = 0, 1, ...
QuarterSine(i, quarter) ==
    CASE (i + quarter) % 4 = 1 -> 1
      [] (i + quarter) % 4 = 3 -> 0 - 1
      [] OTHER -> 0

\* n samples of the sinusoid, amplitude One / halvings.
Tone(n, quarter, halvings) ==
    [i \in 0..(n - 1) |-> QuarterSine(i, quarter) * (One \div halvings)]

ToneInit ==
    /\ AppInit
    /\ mediaDevices = TRUE
    /\ fr = Idle /\ ft = Idle /\ ra = Idle /\ mh = Idle /\ wf = Idle /\ bn = Idle
    /\ cs = Idle /\ dr = Idle /\ md = Idle
    /\ tn = [pc |-> "ready"]

\* Lines 18-33 of the call.
ToneCall(audioData, sampleRate, step, K, tm) ==
    /\ tn.pc = "ready"
    /\ tn' = [pc |-> "loop",
              in |-> [audioData |-> audioData, sampleRate |-> sampleRate,
                      step |-> step, K |-> K, tm |-> tm],
              nFrames |-> NFrames(Length(audioData), step, ToneWindow),
              engine |-> EnterCall(audioData, K, tm, Zeros(ToneWindow),
                                   ToneWindow)]
    /\ UNCHANGED <<appVars, fr, ft, ra, mh, wf, bn, cs, dr, md>>

\* Lines 36-115: one frame.
ToneFrame ==
    /\ tn.pc = "loop"
    /\ Less(tn.engine.frame, tn.nFrames)
    /\ \E e \in {ProcessFrame(tn.engine, tn.in.sampleRate, tn.in.step,
                              tn.in.K, ToneWindow)} :
          tn' = [tn EXCEPT !.pc = IF e.hung THEN "hung" ELSE "loop",
                           !.engine = e]
    /\ UNCHANGED <<appVars, fr, ft, ra, mh, wf, bn, cs, dr, md>>

\* Line 117: the call returns engine.result.
ToneReturn ==
    /\ tn.pc = "loop"
    /\ ~Less(tn.engine.frame, tn.nFrames)
    /\ tn' = [tn EXCEPT !.pc = "returned"]
    /\ UNCHANGED <<appVars, fr, ft, ra, mh, wf, bn, cs, dr, md>>

ToneNext ==
    \/ \E n \in ToneWindow..(ToneWindow + MaxToneExtra), quarter \in 0..3,
          halvings \in {1, 2, 4}, step \in 1..MaxStep, K \in 1..MaxTapers :
          ToneCall(Tone(n, quarter, halvings), ToneSampleRate, step, K, 6)
    \/ ToneFrame
    \/ ToneReturn

SpecTone == ToneInit /\ [][ToneNext]_vars

\* round(1000 * N / sampleRate): the bin of the sinusoid.
ToneBin == RoundOfQuotient(ToneFrequency * ToneWindow, ToneSampleRate)

\* The bins of the returned vector that hold its largest value.
LoudestBins ==
    {b \in DOMAIN tn.engine.result :
        \A c \in DOMAIN tn.engine.result :
            tn.engine.result[c] <= tn.engine.result[b]}

(***************************************************************************)
(* C16: for a pure sinusoid of 1000 Hz filling the window, the bin of      *)
(* maximum output energy of analyzeReassignment lies within one bin of     *)
(* round(1000 * N / sampleRate): every bin that holds the largest value of *)
(* the returned vector is the sinusoid's bin or a neighbour of it.         *)
(***************************************************************************)
C16_PeakAtToneBin ==
    tn.pc = "returned" =>
        \A b \in LoudestBins : b \in (ToneBin - 1)..(ToneBin + 1)


(***************************************************************************)
(* C21 (SpecBins): for every bin above the threshold the two phases lie in *)
(* [-pi, pi], the offset (freqPhase - phase) / (2 pi) lies in [-1, 1] and  *)
(* the two wrapping loops leave it as it is; the frequency correction lies *)
(* in [-50, +50] Hz and the reassigned bin differs from the bin by at most *)
(* one, whatever the sample rate.                                          *)
(***************************************************************************)
C21_CorrectionWithinOneBin ==
    (BinExamined /\ LastBin.accepted) =>
        /\ ~IsNaN(LastBin.phase)
        /\ 0 - PiFx <= LastBin.phase /\ LastBin.phase <= PiFx
        /\ ~IsNaN(LastBin.freqPhase)
        /\ 0 - PiFx <= LastBin.freqPhase /\ LastBin.freqPhase <= PiFx
        /\ 0 - One <= LastBin.rawOffset /\ LastBin.rawOffset <= One
        /\ LastBin.instFreqOffset = LastBin.rawOffset
        /\ ~IsNaN(LastBin.freqOffset)
        /\ Fx(0 - 50) <= LastBin.freqOffset /\ LastBin.freqOffset <= Fx(50)
        /\ ~IsNaN(LastBin.reassignedBin)
        /\ LastBin.reassignedBin \in (LastBin.bin - 1)..(LastBin.bin + 1)

\* A bin whose offset is more than 50 Hz was held to 50 Hz, and moved up by
\* one bin.
C21_Witness ==
    /\ BinExamined
    /\ LastBin.accepted
    /\ Times(LastBin.instFreqOffset, bn.sampleRate, BinWindow) > Fx(50)
    /\ LastBin.freqOffset = Fx(50)
    /\ LastBin.reassignedBin = LastBin.bin + 1


\* min(255, floor(1275 * (energy / maxVal)^0.1)) for 0 <= energy <= maxVal.
ExpectedByte(energy, maxVal) ==
    LET scaled == (1275 * PowTenth(FxDiv(energy, maxVal))) \div One
    IN  IF scaled >= 255 THEN 255 ELSE scaled

(***************************************************************************)
(* C22 (SpecReassign): a frame whose accumulated energy has a maximum      *)
(* maxVal > 0 writes min(255, floor(1275 * (energy[i] / maxVal)^0.1)) to   *)
(* every output byte, 255 at the bin of the maximum and 0 at a bin without *)
(* energy; a frame whose maximum is 0 leaves the output as it was.         *)
(***************************************************************************)
C22_OutputBytes ==
    [][(ra.pc = "loop" /\ ra'.pc = "loop"
            /\ ra'.engine.frame = ra.engine.frame + 1) =>
          LET energy == ra'.engine.tfr
              maxVal == MathMaxOf(energy)
          IN  /\ ~IsNaN(maxVal)
              /\ maxVal >= 0
              /\ IF maxVal > 0
                 THEN \A i \in DOMAIN ra'.engine.result :
                         /\ ra'.engine.result[i] = ExpectedByte(energy[i], maxVal)
                         /\ energy[i] = maxVal => ra'.engine.result[i] = 255
                         /\ energy[i] = 0 => ra'.engine.result[i] = 0
                 ELSE ra'.engine.result = ra.engine.result
      ]_vars

\* A frame without energy has followed a frame with energy, and the output
\* holds the bytes of the earlier frame: 255 and 0.
C22_Witness ==
    /\ ra.pc = "loop"
    /\ ra.engine.frame = 2
    /\ AllZero(ra.engine.tfr)
    /\ \E i \in DOMAIN ra.engine.result : ra.engine.result[i] = 255
    /\ \E i \in DOMAIN ra.engine.result : ra.engine.result[i] = 0


\* log2 of a power of two.
RECURSIVE Log2(_)
Log2(n) == IF n <= 1 THEN 0 ELSE 1 + Log2(n \div 2)

\* The index whose bits (the lowest of them) are those of i in reverse.
RECURSIVE ReverseBits(_, _)
ReverseBits(i, bits) ==
    IF bits = 0 THEN 0
    ELSE (i % 2) * (2 ^ (bits - 1)) + ReverseBits(i \div 2, bits - 1)

(***************************************************************************)
(* C23 (SpecFFT, as stated): for a power-of-two N the transform moves      *)
(* element i to the index with i's bits reversed, then runs log2(N)        *)
(* butterfly stages, and the factor multiplied into the odd element of     *)
(* butterfly (step, pair) is e^(-i*pi*pair/step), of magnitude 1, and      *)
(* equal to 1 for pair = 0.  Stated for N = 1, 2, 4.                       *)
(***************************************************************************)
C23_StandardTransform ==
    (ft.pc = "done" /\ FrameLength \in {1, 2, 4}) =>
        /\ \A i \in 0..(FrameLength - 1) :
              /\ ft.reversed[2 * ReverseBits(i, Log2(FrameLength))]
                    = FxMul(ft.frame[i], ft.window[i])
              /\ ft.reversed[2 * ReverseBits(i, Log2(FrameLength)) + 1] = 0
        /\ ft.stages = Log2(FrameLength)
        /\ \A b \in ft.butterflies :
              /\ b.rot = RotationExact(b.step, b.pair)
              /\ b.rot[1] * b.rot[1] + b.rot[2] * b.rot[2] = One * One
              /\ b.pair = 0 => b.rot = <<One, 0>>


(***************************************************************************)
(* SpecTransforms: the transforms of the first frame of a call of          *)
(* analyzeReassignment (lines 38-51) on a heap of buffers.  A buffer is    *)
(* known by its index in cs.heap; computeSTFT and performFFT are run on    *)
(* the heap, every `new Float32Array` and every slice() adding a buffer    *)
(* and every store going to the buffer the code stores into.  A taper is   *)
(* three steps: the two slices of the window bank, the transform with the  *)
(* time window and the transform with the frequency window.                *)
(***************************************************************************)
LogStftWindow == 2
StftWindow == 2 ^ LogStftWindow

\* A mutation of WindowedBuffer: the windowed samples are stored into the
\* frame itself.
WindowedInPlace(heap, data, N) == [heap |-> heap, id |-> data]

\* Line 12: const windowedData = new Float32Array(N).
WindowedBuffer(heap, data, N) == [heap |-> Allocate(heap, N), id |-> Len(heap) + 1]

\* Lines 16-27 on the heap: data and window are read, windowedData and
\* result written.
WindowedOnHeap(heap, data, window, N, result, windowedData) ==
    LET windowedHeap ==
            [heap EXCEPT ![windowedData] =
                [i \in 0..(N - 1) |-> FxMul(heap[data][i], At(heap[window], i))]]
    IN  [windowedHeap EXCEPT ![result] =
            [x \in 0..(2 * N - 1) |->
                IF x % 2 = 0 THEN windowedHeap[windowedData][x \div 2] ELSE 0]]

\* Lines 37-40 and 99: performFFT(input) on the heap.  fft is a new buffer
\* that receives a copy of the input and is transformed in place; the call
\* returns it.
PerformFFTOnHeap(heap, input) ==
    LET fft == Len(heap) + 1
        done == performFFT(heap[input])
    IN  [hung |-> done.hung,
         heap |-> [Allocate(heap, Length(heap[input])) EXCEPT ![fft] = done.fft],
         returned |-> fft]

\* Lines 7-30: computeSTFT(data, window) on the heap.
ComputeSTFTOnHeap(heap, data, window) ==
    LET N == Length(heap[data])
        result == Len(heap) + 1
        w == WindowedBuffer(Allocate(heap, N * 2), data, N)
    IN  PerformFFTOnHeap(
            WindowedOnHeap(w.heap, data, window, N, result, w.id), result)

\* The record of a call: its arguments, what they held when it was made and
\* the number of buffers there were, and the buffer it returned.
CallRecord(heap, data, window, done) ==
    [data |-> data, window |-> window,
     dataAtCall |-> heap[data], windowAtCall |-> heap[window],
     buffersAtCall |-> Len(heap), returned |-> done.returned]

\* Lines 20-38 of analyzeReassignment(audioData, sampleRate, step, K, tm):
\* the heap holds h, Dh, normalizedData and the slice frameData of frame 0.
TransformsInit ==
    /\ AppInit /\ mediaDevices = TRUE
    /\ fr = Idle /\ ft = Idle /\ ra = Idle /\ mh = Idle /\ wf = Idle
    /\ bn = Idle /\ tn = Idle /\ dr = Idle /\ md = Idle
    /\ \E n \in 1..StftWindow, K \in 1..MaxTapers :
         \E audioData \in [0..(n - 1) -> Samples] :
            \E bank \in {createHermiteFunctions(StftWindow, K, 3)},
               normalizedData \in {Normalize(audioData)} :
               cs = [pc |-> "windows", K |-> K, k |-> 0,
                     heap |-> <<bank.h, bank.Dh, normalizedData,
                                Slice(normalizedData, 0, StftWindow)>>,
                     h |-> 1, Dh |-> 2, frameData |-> 4,
                     frameAtStart |-> Slice(normalizedData, 0, StftWindow),
                     timeWindow |-> 0, freqWindow |-> 0,
                     calls |-> <<>>]

\* Lines 44-47: the loop header and the two slices of the bank.
TaperWindows ==
    /\ cs.pc = "windows"
    /\ cs.k < cs.K
    /\ cs' = [cs EXCEPT
                !.pc = "stft",
                !.heap = cs.heap
                    \o <<Slice(cs.heap[cs.h], cs.k * StftWindow,
                               (cs.k + 1) * StftWindow),
                         Slice(cs.heap[cs.Dh], cs.k * StftWindow,
                               (cs.k + 1) * StftWindow)>>,
                !.timeWindow = Len(cs.heap) + 1,
                !.freqWindow = Len(cs.heap) + 2]
    /\ UNCHANGED <<appVars, fr, ft, ra, mh, wf, bn, tn, dr, md>>

\* A call computeSTFT(frameData, window) made at pc, leading to next.
TransformCall(pc, window, next, k) ==
    /\ cs.pc = pc
    /\ \E done \in {ComputeSTFTOnHeap(cs.heap, cs.frameData, window)} :
          cs' = IF done.hung THEN [cs EXCEPT !.pc = "hung"]
                ELSE [cs EXCEPT
                        !.pc = next, !.k = k, !.heap = done.heap,
                        !.calls = Append(@, CallRecord(cs.heap, cs.frameData,
                                                       window, done))]
    /\ UNCHANGED <<appVars, fr, ft, ra, mh, wf, bn, tn, dr, md>>

\* Line 50: const stft = computeSTFT(frameData, timeWindow).
StftCall == TransformCall("stft", cs.timeWindow, "freqMod", cs.k)

\* Line 51: const freqMod = computeSTFT(frameData, freqWindow), and the bin
\* loop of lines 54-102, which stores into none of these buffers.
FreqModCall == TransformCall("freqMod", cs.freqWindow, "windows", cs.k + 1)

TransformsNext == TaperWindows \/ StftCall \/ FreqModCall

SpecTransforms == TransformsInit /\ [][TransformsNext]_vars

(***************************************************************************)
(* C24 (SpecTransforms): computeSTFT leaves the frame and the window it is *)
(* given as they were and returns a buffer that did not exist before the   *)
(* call, so every transform of the frame, with h[k] and with Dh[k] for     *)
(* each taper k, reads the same frame samples.                             *)
(***************************************************************************)
C24_TransformsSeeSameFrame ==
    cs.pc \in {"windows", "stft", "freqMod"} =>
        /\ cs.heap[cs.frameData] = cs.frameAtStart
        /\ \A c \in DOMAIN cs.calls :
              /\ cs.calls[c].data = cs.frameData
              /\ cs.calls[c].dataAtCall = cs.frameAtStart
              /\ cs.heap[cs.calls[c].window] = cs.calls[c].windowAtCall
              /\ cs.calls[c].windowAtCall
                    = Slice(cs.heap[IF c % 2 = 1 THEN cs.h ELSE cs.Dh],
                            ((c - 1) \div 2) * StftWindow,
                            ((c - 1) \div 2 + 1) * StftWindow)
              /\ cs.calls[c].returned > cs.calls[c].buffersAtCall
              /\ cs.heap[cs.calls[c].returned]
                    = computeSTFT(cs.frameAtStart, cs.calls[c].windowAtCall).fft
              /\ \A e \in DOMAIN cs.calls :
                    e # c => cs.calls[e].returned # cs.calls[c].returned

\* Two tapers are through, four transforms, on a frame and with windows that
\* are not all zero.
C24_Witness ==
    /\ cs.pc = "windows"
    /\ cs.k = 2
    /\ Len(cs.calls) = 4
    /\ \E i \in DOMAIN cs.frameAtStart :
          ~IsNaN(cs.frameAtStart[i]) /\ cs.frameAtStart[i] # 0
    /\ \A c \in DOMAIN cs.calls :
          \E i \in DOMAIN cs.calls[c].windowAtCall :
              cs.calls[c].windowAtCall[i] # 0


(***************************************************************************)
(* C25 (Spec, as stated): after any sequence of audio starts and changes   *)
(* of the FFT size, the byte array the render loop passes to               *)
(* updateSpectrogramm has analyser.frequencyBinCount entries: a change to *)
(* a size of FFT_SIZES with an analyser in place leaves the render loop an *)
(* array of size / 2 entries.                                              *)
(***************************************************************************)
C25_RenderArrayMatchesAnalyser ==
    (rafLoops > 0 /\ uiDataArray # 0) =>
        uiDataArray = frequencyBinCount(fftSize)


(***************************************************************************)
(* SpecDraw: the renderer's pause and note-drawing state                   *)
(* (spectrogramRenderer.js): isPaused, isDrawing, drawingStartX and the    *)
(* drawnNotes map, under the pause button and the canvas's mouse-down,     *)
(* mouse-up and double-click handlers, in any order.  All events are at    *)
(* one height of the canvas, so a note's id is its start position.  The    *)
(* map is the sequence of its values in insertion order.  dr.period counts *)
(* the pauses so far; every note carries the period of the mouse-down that *)
(* set its start position and the period of the mouse-up that added it.    *)
(***************************************************************************)
MaxToggles == 4     \* clicks on the pause button in one behaviour

\* The positions of the mouse events: 4 apart is no note, 6 and 10 are.
Positions == {0, 4, 10}

\* A mutation of ClearedOnResume: the map is left as it is.
KeptOnResume(notes, paused) == notes

\* Lines 78-79: if (!isPaused) drawnNotes.clear().
ClearedOnResume(notes, paused) == IF ~paused THEN <<>> ELSE notes

\* drawnNotes.set(noteId, note): the value of an existing key is replaced
\* where it stands, a new key goes last.
MapSet(notes, note) ==
    IF \E n \in DOMAIN notes : notes[n].x = note.x
    THEN [n \in DOMAIN notes |-> IF notes[n].x = note.x THEN note ELSE notes[n]]
    ELSE Append(notes, note)

\* Lines 494-499: the note under a double click at x.
Hit(note, x) == x >= note.x /\ x <= note.x + note.width

DrawInit ==
    /\ AppInit /\ mediaDevices = TRUE
    /\ fr = Idle /\ ft = Idle /\ ra = Idle /\ mh = Idle /\ wf = Idle
    /\ bn = Idle /\ tn = Idle /\ cs = Idle /\ md = Idle
    /\ dr = [isPaused |-> FALSE, isDrawing |-> FALSE, drawingStartX |-> 0,
             drawnNotes |-> <<>>, toggles |-> 0, returned |-> FALSE,
             period |-> 0, downIn |-> 0, added |-> 0]

\* togglePause() (lines 76-84), called by the pause button.
DrawTogglePause ==
    /\ dr.toggles < MaxToggles
    /\ dr' = [dr EXCEPT
                !.isPaused = ~dr.isPaused,
                !.drawnNotes = ClearedOnResume(dr.drawnNotes, ~dr.isPaused),
                !.returned = ~dr.isPaused,
                !.toggles = dr.toggles + 1,
                !.period = IF ~dr.isPaused THEN dr.period + 1 ELSE dr.period]
    /\ UNCHANGED <<appVars, fr, ft, ra, mh, wf, bn, tn, cs, md>>

\* handleMouseDown (lines 444-451) at x.
MouseDown(x) ==
    /\ dr' = IF dr.isPaused
             THEN [dr EXCEPT !.drawingStartX = x, !.isDrawing = TRUE,
                             !.downIn = dr.period]
             ELSE dr
    /\ UNCHANGED <<appVars, fr, ft, ra, mh, wf, bn, tn, cs, md>>

\* handleMouseUp (lines 453-474) at endX.
MouseUp(endX) ==
    /\ dr' = IF dr.isPaused /\ dr.isDrawing
             THEN LET width == endX - dr.drawingStartX
                  IN  IF Abs(width) > 5
                      THEN [dr EXCEPT
                              !.drawnNotes =
                                  MapSet(@, [x |-> dr.drawingStartX,
                                             width |-> width,
                                             downIn |-> dr.downIn,
                                             upIn |-> dr.period]),
                              !.added = 1,
                              !.isDrawing = FALSE]
                      ELSE [dr EXCEPT !.isDrawing = FALSE]
             ELSE dr
    /\ UNCHANGED <<appVars, fr, ft, ra, mh, wf, bn, tn, cs, md>>

\* handleDoubleClick (lines 486-505) at x: the first note under the click
\* is deleted.
DoubleClick(x) ==
    /\ dr' = IF dr.isPaused /\ \E n \in DOMAIN dr.drawnNotes : Hit(dr.drawnNotes[n], x)
             THEN LET first == CHOOSE n \in DOMAIN dr.drawnNotes :
                                  /\ Hit(dr.drawnNotes[n], x)
                                  /\ \A m \in 1..(n - 1) : ~Hit(dr.drawnNotes[m], x)
                  IN  [dr EXCEPT !.drawnNotes = RemoveAt(@, first)]
             ELSE dr
    /\ UNCHANGED <<appVars, fr, ft, ra, mh, wf, bn, tn, cs, md>>

DrawNext ==
    \/ DrawTogglePause
    \/ \E x \in Positions : MouseDown(x)
    \/ \E x \in Positions : MouseUp(x)
    \/ \E x \in Positions : DoubleClick(x)

SpecDraw == DrawInit /\ [][DrawNext]_vars

(***************************************************************************)
(* C26 (SpecDraw): drawn notes exist only while paused: whenever isPaused  *)
(* is false the drawnNotes map is empty; and togglePause returns the pause *)
(* state it has set.                                                       *)
(***************************************************************************)
C26_NotesOnlyWhilePaused ==
    /\ ~dr.isPaused => dr.drawnNotes = <<>>
    /\ dr.toggles > 0 => dr.returned = dr.isPaused

\* Notes were drawn in a pause, and the renderer has been resumed.
C26_Witness ==
    /\ ~dr.isPaused
    /\ dr.toggles = 2
    /\ dr.added = 1
    /\ dr.drawnNotes = <<>>

(***************************************************************************)
(* C27 (SpecDraw, as stated): isDrawing is true only while isPaused is     *)
(* true, and every note in drawnNotes comes from a mouse-down and a        *)
(* mouse-up of the same paused period.                                     *)
(***************************************************************************)
C27_NoteWithinOnePause ==
    /\ dr.isDrawing => dr.isPaused
    /\ \A n \in DOMAIN dr.drawnNotes :
          dr.drawnNotes[n].downIn = dr.drawnNotes[n].upIn


(***************************************************************************)
(* SpecMidi: saveMidiFile (utils/midiUtils.js) on the data createMidiData  *)
(* hands it: one track of notes in the order of their start, each with a   *)
(* start tick, a duration of at least a quarter of a beat, a note number   *)
(* and velocity 100.  An event is the sequence <<time, byte, byte, ...>>.  *)
(* The function is run in four steps: the events are collected, sorted,    *)
(* given their delta times and written.                                    *)
(***************************************************************************)
MaxNotes == 2      \* notes of the track

\* Start ticks of notes drawn at x = 0, 10, 20 and 100 pixels, and the
\* durations of notes up to 25 and of 100 pixels.
StartTimes == {0, 48, 96, 480}
Durations == {120, 480}

\* 'Spectrogram Notes', the track name createMidiData gives.
TrackName == <<83, 112, 101, 99, 116, 114, 111, 103, 114, 97, 109, 32, 78, 111, 116, 101, 115>>

\* The tracks' notes: startTime ascending, as createMidiData sorts them.
MidiNotes ==
    {notes \in UNION {[1..n -> [startTime : StartTimes, duration : Durations,
                                noteNumber : {60}, velocity : {100}]]
                      : n \in 1..MaxNotes} :
        \A a, b \in DOMAIN notes : a < b => notes[a].startTime <= notes[b].startTime}

\* Lines 49-54: the two events of the notes from index n on.
RECURSIVE NoteEvents(_, _)
NoteEvents(notes, n) ==
    IF n > Len(notes) THEN <<>>
    ELSE <<<<notes[n].startTime, 144, notes[n].noteNumber, notes[n].velocity>>,
           <<notes[n].startTime + notes[n].duration, 128, notes[n].noteNumber, 0>>>>
         \o NoteEvents(notes, n + 1)

\* Lines 40-54: the track name, the tempo and the note events.
CollectedEvents(name, notes) ==
    <<<<0, 255, 3, Len(name)>> \o name, <<0, 255, 81, 3, 7, 161, 32>>>>
        \o NoteEvents(notes, 1)

\* event put into a sequence sorted by time, behind the events of its time.
RECURSIVE Inserted(_, _)
Inserted(sorted, event) ==
    IF sorted = <<>> THEN <<event>>
    ELSE IF event[1] < sorted[1][1] THEN <<event>> \o sorted
    ELSE <<sorted[1]>> \o Inserted(Tail(sorted), event)

\* Line 57: events.sort((a, b) => a[0] - b[0]), a stable sort.
RECURSIVE SortedFrom(_, _, _)
SortedFrom(events, n, sorted) ==
    IF n > Len(events) THEN sorted
    ELSE SortedFrom(events, n + 1, Inserted(sorted, events[n]))
SortByTime(events) == SortedFrom(events, 1, <<>>)

\* Lines 60-65: the loop from event n on, lastTime as the loop holds it:
\* event[0] receives deltaTime, and lastTime is read from event[0] afterwards.
RECURSIVE DeltasFrom(_, _, _)
DeltasFrom(events, n, lastTime) ==
    IF n > Len(events) THEN events
    ELSE LET deltaTime == events[n][1] - lastTime
             event == [events[n] EXCEPT ![1] = deltaTime]
         IN  DeltasFrom([events EXCEPT ![n] = event], n + 1, event[1])

\* Lines 74-80: the while loop, bytes the bytes unshifted so far.
RECURSIVE VlqLoop(_, _)
VlqLoop(deltaTime, bytes) ==
    IF ~(deltaTime > 0) THEN bytes
    ELSE LET unshifted == <<deltaTime % 128>> \o bytes
         IN  VlqLoop(deltaTime \div 128,
                     IF Len(unshifted) > 1
                     THEN [unshifted EXCEPT ![1] = (@ % 128) + 128]
                     ELSE unshifted)

\* Lines 71-84: the bytes written for a delta time.
DeltaBytes(deltaTime) == IF deltaTime > 0 THEN VlqLoop(deltaTime, <<>>) ELSE <<0>>

\* Lines 69-87: what is written for each event: the bytes of its delta time
\* and its data.
Written(events) ==
    [n \in DOMAIN events |->
        [delta |-> DeltaBytes(events[n][1]), data |-> Tail(events[n])]]

MidiInit ==
    /\ AppInit /\ mediaDevices = TRUE
    /\ fr = Idle /\ ft = Idle /\ ra = Idle /\ mh = Idle /\ wf = Idle
    /\ bn = Idle /\ tn = Idle /\ cs = Idle /\ dr = Idle
    /\ \E notes \in MidiNotes :
          md = [pc |-> "called", notes |-> notes, events |-> <<>>,
                sorted |-> <<>>, written |-> <<>>]

\* Lines 39-54.
MidiCollect ==
    /\ md.pc = "called"
    /\ md' = [md EXCEPT !.pc = "collected",
                        !.events = CollectedEvents(TrackName, md.notes)]
    /\ UNCHANGED <<appVars, fr, ft, ra, mh, wf, bn, tn, cs, dr>>

\* Line 57.  md.sorted keeps the events as the sort left them.
MidiSort ==
    /\ md.pc = "collected"
    /\ md' = [md EXCEPT !.pc = "sorted",
                        !.events = SortByTime(md.events),
                        !.sorted = SortByTime(md.events)]
    /\ UNCHANGED <<appVars, fr, ft, ra, mh, wf, bn, tn, cs, dr>>

\* Lines 60-65.
MidiDeltas ==
    /\ md.pc = "sorted"
    /\ md' = [md EXCEPT !.pc = "deltas",
                        !.events = DeltasFrom(md.events, 1, 0)]
    /\ UNCHANGED <<appVars, fr, ft, ra, mh, wf, bn, tn, cs, dr>>

\* Lines 67-87.
MidiWrite ==
    /\ md.pc = "deltas"
    /\ md' = [md EXCEPT !.pc = "written", !.written = Written(md.events)]
    /\ UNCHANGED <<appVars, fr, ft, ra, mh, wf, bn, tn, cs, dr>>

MidiNext == MidiCollect \/ MidiSort \/ MidiDeltas \/ MidiWrite

SpecMidi == MidiInit /\ [][MidiNext]_vars

\* The number a variable-length quantity stands for: seven bits a byte, the
\* most significant first.
RECURSIVE QuantityFrom(_, _, _)
QuantityFrom(bytes, n, value) ==
    IF n > Len(bytes) THEN value
    ELSE QuantityFrom(bytes, n + 1, value * 128 + (bytes[n] % 128))
Quantity(bytes) == QuantityFrom(bytes, 1, 0)

\* The sum of the delta times written up to event n.
RECURSIVE RunningSum(_, _)
RunningSum(written, n) ==
    IF n = 0 THEN 0 ELSE Quantity(written[n].delta) + RunningSum(written, n - 1)

(***************************************************************************)
(* C28 (SpecMidi, as stated): the events are written in non-decreasing     *)
(* order of absolute tick, a note-on at startTime and a note-off at        *)
(* startTime + duration for every note; the delta time written for an      *)
(* event is its absolute tick minus that of the event before it, so the    *)
(* deltas written up to an event add up to its absolute tick.              *)
(***************************************************************************)
C28_DeltasAddUpToTicks ==
    md.pc = "written" =>
        /\ Len(md.written) = 2 + 2 * Len(md.notes)
        /\ \A n \in DOMAIN md.notes :
              /\ \E e \in DOMAIN md.sorted :
                    md.sorted[e] = <<md.notes[n].startTime, 144,
                                     md.notes[n].noteNumber, md.notes[n].velocity>>
              /\ \E e \in DOMAIN md.sorted :
                    md.sorted[e] = <<md.notes[n].startTime + md.notes[n].duration,
                                     128, md.notes[n].noteNumber, 0>>
        /\ \A e \in DOMAIN md.written :
              /\ md.written[e].data = Tail(md.sorted[e])
              /\ e > 1 => md.sorted[e - 1][1] <= md.sorted[e][1]
              /\ Quantity(md.written[e].delta)
                    = md.sorted[e][1] - (IF e = 1 THEN 0 ELSE md.sorted[e - 1][1])
              /\ RunningSum(md.written, e) = md.sorted[e][1]


(***************************************************************************)
(* C29 (Spec, as stated): under any interleaving of the clicks on the      *)
(* Start/Stop button with the microphone grants, at most one media stream  *)
(* source is connected to the analyser at any time, and once the audio is  *)
(* stopped and no toggleAudio() promise is in flight, none is.             *)
(***************************************************************************)
C29_AtMostOneSource ==
    /\ Cardinality(connected) <= 1
    /\ (~isRunning /\ chains = <<>>) => connected = {}

====
